---- MODULE Spec2Model ----
(***************************************************************************)
(* A model of the AppScale Cassandra datastore adapter                     *)
(* (AppDB/cassandra_env/cassandra_interface.py): the retry policy, the     *)
(* DatastoreProxy constructor and its data operations, together with the   *)
(* parts of the Cassandra session the operations talk to; of the Hermes    *)
(* StatsCache (Hermes/appscale/hermes/stats/subscribers/cache.py) with the *)
(* handler that reads it; and of the RPC objects of the API proxy          *)
(* (AppServer/google/appengine/api/apiproxy_rpc.py).                       *)
(***************************************************************************)
EXTENDS Integers, Sequences, FiniteSets, TLC

VARIABLES
  ctor_pc,                    \* position of DatastoreProxy.__init__
  remaining_retries,          \* local of __init__
  connect_attempts,           \* number of cluster.connect calls made so far
  cluster,                    \* self.cluster
  session,                    \* self.session
  default_consistency_level,  \* self.session.default_consistency_level
  retry_policy,               \* self.retry_policy
  ctor_raised,                \* the exception that left __init__, if any
  slept,                      \* seconds spent in time.sleep by __init__
  pol,                        \* one call of a retry-policy handler
  db,                         \* the cluster: table -> (<<key, column>> -> value)
  call,                       \* the current (or last finished) operation call
  nops,                       \* number of operation calls started
  hist,                       \* the last write call that returned, until the
                              \* next write call starts
  parked,                     \* the call of a second caller of the same
                              \* instance, while the first one's is current
  clock,                      \* the time of the cluster, in seconds, and the
                              \* time at which each cell written with a TTL
                              \* expires
  stats_cache,                \* a StatsCache object
  stats_call,                 \* the last call of a StatsCache method
  stats_clock,                \* the UTC time, and the snapshots made so far
  rpc,                        \* an RPC or RealRPC object and its worker thread
  rpc_call                    \* the last call of a method of the RPC object

ctor_vars == <<ctor_pc, remaining_retries, connect_attempts, cluster, session,
               default_consistency_level, retry_policy, ctor_raised, slept>>
store_vars == <<db, call, nops, hist, parked, clock>>
stats_vars == <<stats_cache, stats_call, stats_clock>>
rpc_vars == <<rpc, rpc_call>>
vars == <<ctor_vars, pol, store_vars, stats_vars, rpc_vars>>

(***************************************************************************)
(* Bounds of the model.                                                    *)
(***************************************************************************)
MaxRetryNum == 8    \* largest retry_num handed to a policy handler
MaxOps == 2         \* operation calls in one behaviour
MaxMuts == 2        \* length of a mutation list
MaxTypedOps == 1    \* operation calls in one behaviour of SpecTypes
MaxMetaOps == 3     \* operation calls in one behaviour of SpecMeta

(***************************************************************************)
(* Program constants.                                                      *)
(***************************************************************************)
INITIAL_CONNECT_RETRIES == 20
SLEEP_SECONDS == 3

None == "None"
RETRY == "RETRY"
RETHROW == "RETHROW"
QUORUM == "QUORUM"
ConsistencyLevels == {"ONE", QUORUM, "ALL"}

(***************************************************************************)
(* IdempotentRetryPolicy.  Each handler returns <<decision, consistency>>. *)
(***************************************************************************)
\* on_read_timeout with the comparison off by one.
on_read_timeout_late(consistency, retry_num) ==
  IF retry_num > 5 THEN <<RETHROW, None>> ELSE <<RETRY, consistency>>

on_read_timeout(consistency, retry_num) ==
  IF retry_num >= 5 THEN <<RETHROW, None>> ELSE <<RETRY, consistency>>

\* on_write_timeout with the comparison off by one.
on_write_timeout_late(consistency, retry_num) ==
  IF retry_num > 5 THEN <<RETHROW, None>> ELSE <<RETRY, consistency>>

on_write_timeout(consistency, retry_num) ==
  IF retry_num >= 5 THEN <<RETHROW, None>> ELSE <<RETRY, consistency>>

IdempotentRetryPolicy(handler, consistency, retry_num) ==
  IF handler = "on_read_timeout"
    THEN on_read_timeout(consistency, retry_num)
    ELSE on_write_timeout(consistency, retry_num)

PolicyHandlers == {"on_read_timeout", "on_write_timeout"}

NoPol == [handler |-> None, consistency |-> None, retry_num |-> 0,
          decision |-> None, out_consistency |-> None]

\* The driver asks the policy what to do about one timed-out statement.
PolicyDecide ==
  /\ pol.handler # None
  /\ pol.decision = None
  /\ LET d == IdempotentRetryPolicy(pol.handler, pol.consistency, pol.retry_num)
     IN pol' = [pol EXCEPT !.decision = d[1], !.out_consistency = d[2]]
  /\ UNCHANGED <<ctor_vars, store_vars, stats_vars, rpc_vars>>

(***************************************************************************)
(* DatastoreProxy.__init__                                                 *)
(***************************************************************************)
ClusterOutcomes == {"ok", "OtherError"}
ConnectOutcomes == {"ok", "NoHostAvailable", "OtherError"}

NoError == [kind |-> None, at |-> 0]

\* The start of __init__ with the retry policy installed before the loop.
DatastoreProxy_init_start_early ==
  /\ ctor_pc = "start"
  /\ remaining_retries' = INITIAL_CONNECT_RETRIES
  /\ retry_policy' = "IdempotentRetryPolicy"
  /\ ctor_pc' = "cluster"
  /\ UNCHANGED <<connect_attempts, cluster, session, default_consistency_level,
                 ctor_raised, slept, pol, stats_vars, rpc_vars, store_vars>>

\* self.hosts = ...; remaining_retries = INITIAL_CONNECT_RETRIES
DatastoreProxy_init_start ==
  /\ ctor_pc = "start"
  /\ remaining_retries' = INITIAL_CONNECT_RETRIES
  /\ ctor_pc' = "cluster"
  /\ UNCHANGED <<connect_attempts, cluster, session, default_consistency_level,
                 retry_policy, ctor_raised, slept, pol, stats_vars, rpc_vars, store_vars>>

\* self.cluster = Cluster(self.hosts, protocol_version=3).  An exception of
\* the Cluster constructor is not NoHostAvailable and leaves __init__.
DatastoreProxy_init_cluster(outcome) ==
  /\ ctor_pc = "cluster"
  /\ IF outcome = "ok"
       THEN /\ cluster' = "Cluster"
            /\ ctor_pc' = "connect"
            /\ UNCHANGED ctor_raised
       ELSE /\ ctor_pc' = "raised"
            /\ ctor_raised' = [kind |-> outcome, at |-> connect_attempts]
            /\ UNCHANGED cluster
  /\ UNCHANGED <<remaining_retries, connect_attempts, session,
                 default_consistency_level, retry_policy, slept, pol, stats_vars, rpc_vars,
                 store_vars>>

\* The connect step giving up as soon as no retry remains (<= for <), and
\* the connect step leaving the driver's consistency level as it is.
DatastoreProxy_init_connect_short(outcome) ==
  /\ ctor_pc = "connect"
  /\ connect_attempts' = connect_attempts + 1
  /\ CASE outcome = "ok" ->
            /\ session' = "Session"
            /\ default_consistency_level' = QUORUM
            /\ retry_policy' = "IdempotentRetryPolicy"
            /\ ctor_pc' = "returned"
            /\ UNCHANGED <<remaining_retries, ctor_raised>>
       [] outcome = "NoHostAvailable" ->
            /\ remaining_retries' = remaining_retries - 1
            /\ IF remaining_retries' <= 0
                 THEN /\ ctor_pc' = "raised"
                      /\ ctor_raised' = [kind |-> "NoHostAvailable",
                                         at |-> connect_attempts']
                 ELSE /\ ctor_pc' = "sleep"
                      /\ UNCHANGED ctor_raised
            /\ UNCHANGED <<session, default_consistency_level, retry_policy>>
       [] OTHER ->
            /\ ctor_pc' = "raised"
            /\ ctor_raised' = [kind |-> outcome, at |-> connect_attempts']
            /\ UNCHANGED <<remaining_retries, session,
                           default_consistency_level, retry_policy>>
  /\ UNCHANGED <<cluster, slept, pol, stats_vars, rpc_vars, store_vars>>

DatastoreProxy_init_connect_no_quorum(outcome) ==
  /\ ctor_pc = "connect"
  /\ connect_attempts' = connect_attempts + 1
  /\ CASE outcome = "ok" ->
            /\ session' = "Session"
            /\ default_consistency_level' = "ONE"
            /\ retry_policy' = "IdempotentRetryPolicy"
            /\ ctor_pc' = "returned"
            /\ UNCHANGED <<remaining_retries, ctor_raised>>
       [] outcome = "NoHostAvailable" ->
            /\ remaining_retries' = remaining_retries - 1
            /\ IF remaining_retries' < 0
                 THEN /\ ctor_pc' = "raised"
                      /\ ctor_raised' = [kind |-> "NoHostAvailable",
                                         at |-> connect_attempts']
                 ELSE /\ ctor_pc' = "sleep"
                      /\ UNCHANGED ctor_raised
            /\ UNCHANGED <<session, default_consistency_level, retry_policy>>
       [] OTHER ->
            /\ ctor_pc' = "raised"
            /\ ctor_raised' = [kind |-> outcome, at |-> connect_attempts']
            /\ UNCHANGED <<remaining_retries, session,
                           default_consistency_level, retry_policy>>
  /\ UNCHANGED <<cluster, slept, pol, stats_vars, rpc_vars, store_vars>>

\* self.session = self.cluster.connect(KEYSPACE) and what follows it: the
\* break and the two assignments after the loop, or the except clause.
DatastoreProxy_init_connect(outcome) ==
  /\ ctor_pc = "connect"
  /\ connect_attempts' = connect_attempts + 1
  /\ CASE outcome = "ok" ->
            /\ session' = "Session"
            /\ default_consistency_level' = QUORUM
            /\ retry_policy' = "IdempotentRetryPolicy"
            /\ ctor_pc' = "returned"
            /\ UNCHANGED <<remaining_retries, ctor_raised>>
       [] outcome = "NoHostAvailable" ->
            /\ remaining_retries' = remaining_retries - 1
            /\ IF remaining_retries' < 0
                 THEN /\ ctor_pc' = "raised"
                      /\ ctor_raised' = [kind |-> "NoHostAvailable",
                                         at |-> connect_attempts']
                 ELSE /\ ctor_pc' = "sleep"
                      /\ UNCHANGED ctor_raised
            /\ UNCHANGED <<session, default_consistency_level, retry_policy>>
       [] OTHER ->
            /\ ctor_pc' = "raised"
            /\ ctor_raised' = [kind |-> outcome, at |-> connect_attempts']
            /\ UNCHANGED <<remaining_retries, session,
                           default_consistency_level, retry_policy>>
  /\ UNCHANGED <<cluster, slept, pol, stats_vars, rpc_vars, store_vars>>

\* time.sleep(3) in the NoHostAvailable handler, then the loop starts over.
DatastoreProxy_init_sleep ==
  /\ ctor_pc = "sleep"
  /\ slept' = slept + SLEEP_SECONDS
  /\ ctor_pc' = "cluster"
  /\ UNCHANGED <<remaining_retries, connect_attempts, cluster, session,
                 default_consistency_level, retry_policy, ctor_raised, pol,
                 stats_vars, rpc_vars, store_vars>>

(***************************************************************************)
(* Python values.  An object is [ty |-> its type, val |-> its content]; a   *)
(* str is a byte string, its content the sequence of its bytes.            *)
(***************************************************************************)
Obj(ty, val) == [ty |-> ty, val |-> val]
Str(bytes) == Obj("str", bytes)
NoneObj == Obj("NoneType", None)

\* isinstance(obj, classes); bool is a subclass of int.
IsInstance(obj, classes) ==
  \/ obj.ty \in classes
  \/ obj.ty = "bool" /\ "int" \in classes

\* The number an int, a long or a bool stands for.
IntOf(obj) == IF obj.ty = "bool" THEN (IF obj.val THEN 1 ELSE 0) ELSE obj.val

\* bytearray(s) of a str: the same bytes in a mutable array.
ByteArray(obj) == Obj("bytearray", obj.val)

\* The driver writes a bytearray parameter as a blob and reads a blob column
\* back as a str.
ToBlob(obj) == obj.val
FromBlob(bytes) == Str(bytes)

(***************************************************************************)
(* The data the model works on.                                            *)
(***************************************************************************)
Tables == {"T1", "T2"}
KeyA == <<97>>
KeyB == <<98>>
KeyC == <<99>>
Keys == {KeyA, KeyB, KeyC}
Columns == {"c1", "c2"}
Blobs == {<<>>, <<120>>}
Cells == Keys \X Columns

\* Rows come back from the cluster in the order of the partition token of
\* their key and, inside a row, in the order of the clustering column.
Token(key) == IF key = KeyB THEN 1 ELSE IF key = KeyA THEN 2 ELSE 3
ClusterOrder ==
  << <<KeyB, "c1">>, <<KeyB, "c2">>, <<KeyA, "c1">>, <<KeyA, "c2">>,
     <<KeyC, "c1">>, <<KeyC, "c2">> >>

\* Unsigned lexicographic order of byte strings, the order in which the
\* cluster compares two values written with the same timestamp.
BytesLeq(a, b) ==
  \/ /\ Len(a) <= Len(b)
     /\ \A i \in 1..Len(a) : a[i] = b[i]
  \/ \E i \in 1..Len(a) :
       /\ i <= Len(b)
       /\ a[i] < b[i]
       /\ \A j \in 1..(i - 1) : a[j] = b[j]

MaxBytes(S) == CHOOSE m \in S : \A x \in S : BytesLeq(x, m)

Range(seq) == {seq[i] : i \in 1..Len(seq)}

(***************************************************************************)
(* Statements.  One shape for all of them; a field a kind of statement     *)
(* does not use holds its default.                                         *)
(***************************************************************************)
Bound(kind, table, key, column, value) ==
  [kind |-> kind, table |-> table, key |-> key, column |-> column,
   value |-> value]

\* The part of a statement only a range SELECT has: the two bounds on
\* token(key), whether each is inclusive, and the LIMIT: <<n>>, or <<>> for a
\* statement without one.
NoRange ==
  [start_key |-> <<>>, end_key |-> <<>>, gt_inclusive |-> TRUE,
   lt_inclusive |-> TRUE, limit |-> <<>>]

Statement(kind, table, keys, cols, items, policy, consistency) ==
  [kind |-> kind, table |-> table, keys |-> keys, cols |-> cols,
   items |-> items, policy |-> policy, consistency |-> consistency,
   range |-> NoRange, ttl |-> <<>>]

NoStatement == Statement(None, None, {}, {}, <<>>, None, None)

ReadKinds == {"SELECT_IN", "SELECT_RANGE", "SELECT_ONE"}

\* The tables a statement needs to exist.
TablesOf(stmt) ==
  IF stmt.kind = "BATCH" THEN {stmt.items[i].table : i \in 1..Len(stmt.items)}
  ELSE {stmt.table}

(***************************************************************************)
(* The cluster.                                                            *)
(***************************************************************************)
\* A batch whose row deletion shadows its inserts into the row only where
\* the row was there before.
ApplyBatchLiveRows(d, items) ==
  LET its == Range(items)
      deleted(t) ==
        {it.key : it \in {x \in its : /\ x.kind = "DELETE"
                                      /\ x.table = t
                                      /\ \E cell \in DOMAIN d[t] : cell[1] = x.key}}
      inserted(t, cell) ==
        {it.value : it \in {x \in its : /\ x.kind = "INSERT"
                                         /\ x.table = t
                                         /\ x.key = cell[1]
                                         /\ x.column = cell[2]}}
  IN [t \in DOMAIN d |->
       LET live == {cell \in Cells :
                      /\ cell[1] \notin deleted(t)
                      /\ \/ inserted(t, cell) # {}
                         \/ cell \in DOMAIN d[t]}
       IN [cell \in live |->
             IF inserted(t, cell) # {} THEN MaxBytes(inserted(t, cell))
             ELSE d[t][cell]]]

\* All statements of a batch carry one timestamp: a row deletion beats an
\* insert into the same row, and of two inserts into one cell the greater
\* value wins.
ApplyBatch(d, items) ==
  LET its == Range(items)
      deleted == {<<it.table, it.key>> : it \in {x \in its : x.kind = "DELETE"}}
      inserted(t, cell) ==
        {it.value : it \in {x \in its : /\ x.kind = "INSERT"
                                         /\ x.table = t
                                         /\ x.key = cell[1]
                                         /\ x.column = cell[2]}}
  IN [t \in DOMAIN d |->
       LET live == {cell \in Cells :
                      /\ <<t, cell[1]>> \notin deleted
                      /\ \/ inserted(t, cell) # {}
                         \/ cell \in DOMAIN d[t]}
       IN [cell \in live |->
             IF inserted(t, cell) # {} THEN MaxBytes(inserted(t, cell))
             ELSE d[t][cell]]]

\* A DELETE without its WHERE clause: every row of the table goes.
ApplyDeleteNoWhere(d, table, keys) == [d EXCEPT ![table] = <<>>]

\* A DELETE that removes the first column of the rows only.
ApplyDeleteOneColumn(d, table, keys) ==
  [d EXCEPT ![table] =
     [cell \in {x \in DOMAIN @ : ~(x[1] \in keys /\ x[2] = "c1")} |-> @[cell]]]

\* DELETE FROM table WHERE key IN keys: every cell of these rows goes.
ApplyDelete(d, table, keys) ==
  [d EXCEPT ![table] =
     [cell \in {x \in DOMAIN @ : x[1] \notin keys} |-> @[cell]]]

\* INSERT INTO table (key, column1, value): one cell written.
ApplyInsert(d, item) ==
  [d EXCEPT ![item.table] = (<<item.key, item.column>> :> item.value) @@ @]

\* A CREATE TABLE that puts an empty table in the place of an existing one.
ApplyCreateAnew(d, table) ==
  (table :> <<>>) @@ [t \in DOMAIN d \ {table} |-> d[t]]

\* CREATE TABLE IF NOT EXISTS
ApplyCreate(d, table) ==
  IF table \in DOMAIN d THEN d ELSE (table :> <<>>) @@ d

\* DROP TABLE IF EXISTS
ApplyDrop(d, table) == [t \in DOMAIN d \ {table} |-> d[t]]

\* The store after the statement took effect.
Apply(d, stmt) ==
  CASE stmt.kind = "BATCH" -> ApplyBatch(d, stmt.items)
    [] stmt.kind = "DELETE_IN" -> ApplyDelete(d, stmt.table, stmt.keys)
    [] stmt.kind = "INSERT" -> ApplyInsert(d, stmt.items[1])
    [] stmt.kind = "CREATE" -> ApplyCreate(d, stmt.table)
    [] stmt.kind = "DROP" -> ApplyDrop(d, stmt.table)
    [] OTHER -> d

\* The rows a SELECT ... WHERE key IN keys AND column1 IN cols returns.
SelectIn(d, stmt) ==
  LET hit(cell) == /\ cell \in DOMAIN d[stmt.table]
                   /\ cell[1] \in stmt.keys
                   /\ cell[2] \in stmt.cols
      cells == SelectSeq(ClusterOrder, hit)
  IN [i \in 1..Len(cells) |->
        <<cells[i][1], cells[i][2], d[stmt.table][cells[i]]>>]

\* The rows of SELECT * ... WHERE token(key) >(=) %s AND token(key) <(=) %s
\* AND column1 IN cols [LIMIT n]: in the order of the cluster, cut at n.
SelectRange(d, stmt) ==
  LET r == stmt.range
      above(key) == IF r.gt_inclusive THEN Token(key) >= Token(r.start_key)
                    ELSE Token(key) > Token(r.start_key)
      below(key) == IF r.lt_inclusive THEN Token(key) <= Token(r.end_key)
                    ELSE Token(key) < Token(r.end_key)
      hit(cell) == /\ cell \in DOMAIN d[stmt.table]
                   /\ above(cell[1])
                   /\ below(cell[1])
                   /\ cell[2] \in stmt.cols
      cells == SelectSeq(ClusterOrder, hit)
      n == IF r.limit = <<>> \/ r.limit[1] >= Len(cells) THEN Len(cells)
           ELSE r.limit[1]
  IN [i \in 1..n |-> <<cells[i][1], cells[i][2], d[stmt.table][cells[i]]>>]

(***************************************************************************)
(* The driver: session.prepare and session.execute.                        *)
(***************************************************************************)
\* What the cluster can answer to one attempt of a statement.
Outcomes == {"ok", "Timeout", "Unavailable", "CoordinationFailure",
             "OperationTimedOut"}

\* A statement on a table that does not exist is an InvalidRequest, and so
\* is a LIMIT that is not positive.
Effective(d, stmt, outcome) ==
  IF \/ stmt.kind \notin {"CREATE", "DROP"} /\ ~(TablesOf(stmt) \subseteq DOMAIN d)
     \/ stmt.range.limit # <<>> /\ stmt.range.limit[1] <= 0
    THEN "InvalidRequest"
    ELSE outcome

\* The exception an unsuccessful attempt ends in.
ExceptionOf(stmt, outcome) ==
  IF outcome = "Timeout"
    THEN IF stmt.kind \in ReadKinds THEN "ReadTimeout" ELSE "WriteTimeout"
    ELSE outcome

\* The decision about a timed-out attempt: the statement's policy is asked;
\* a statement without a policy of this module is not retried by it.
Decision(stmt, exc, retry_num) ==
  IF stmt.policy = "IdempotentRetryPolicy" /\ exc \in {"ReadTimeout", "WriteTimeout"}
    THEN IdempotentRetryPolicy(
           IF exc = "ReadTimeout" THEN "on_read_timeout" ELSE "on_write_timeout",
           stmt.consistency, retry_num)
    ELSE <<RETHROW, None>>

\* One attempt of the pending statement of call c: "ok", "retry" (the call
\* stays in session.execute) or "raise" with the exception exc.
Attempt(d, c, outcome) ==
  LET eff == Effective(d, c.stmt, outcome)
      exc == ExceptionOf(c.stmt, eff)
      c1  == [c EXCEPT !.attempts = @ + 1]
  IN IF eff = "ok" THEN [now |-> "ok", exc |-> None, call |-> c1]
     ELSE IF Decision(c.stmt, exc, c.retry_num)[1] = RETRY
       THEN [now |-> "retry", exc |-> None,
             call |-> [c1 EXCEPT !.retry_num = @ + 1]]
       ELSE [now |-> "raise", exc |-> exc, call |-> c1]

\* The store after one attempt of a writing statement: a successful attempt
\* took effect; a failed one took effect or not (applied), except that an
\* invalid request never does.
AfterAttempt(d, stmt, outcome, applied) ==
  LET eff == Effective(d, stmt, outcome)
  IN IF eff = "ok" \/ (eff # "InvalidRequest" /\ applied)
       THEN Apply(d, stmt) ELSE d

\* The cells a statement writes a value into: those of the inserts of a
\* batch whose row the batch does not delete, and that of a single insert.
Written(stmt) ==
  LET its == Range(stmt.items)
      deleted == {<<it.table, it.key>> : it \in {x \in its : x.kind = "DELETE"}}
  IN {<<it.table, <<it.key, it.column>>>> :
        it \in {x \in its : /\ x.kind = "INSERT"
                             /\ <<x.table, x.key>> \notin deleted}}

\* The cells of a store, each with its table.
LiveCells(d) == UNION {{<<t, cell>> : cell \in DOMAIN d[t]} : t \in DOMAIN d}

\* The clock after the statement took effect on store d.  A cell written
\* USING TTL n, n positive, expires n seconds from now; a cell written
\* without TTL, or with TTL 0, does not expire; a cell that is gone has no
\* time of expiry.
ApplyExpiry(clk, d, stmt) ==
  LET live == LiveCells(Apply(d, stmt))
      written == Written(stmt) \cap live
      timed == IF stmt.ttl = <<>> THEN FALSE ELSE stmt.ttl[1] > 0
      kept == (DOMAIN clk.expires \cap live) \ written
  IN [clk EXCEPT !.expires =
        [x \in kept \cup (IF timed THEN written ELSE {}) |->
           IF x \in written THEN clk.now + stmt.ttl[1] ELSE clk.expires[x]]]

\* The clock after one attempt of a writing statement.
AfterAttemptClock(clk, d, stmt, outcome, applied) ==
  LET eff == Effective(d, stmt, outcome)
  IN IF eff = "ok" \/ (eff # "InvalidRequest" /\ applied)
       THEN ApplyExpiry(clk, d, stmt) ELSE clk

\* No time has passed and no cell expires.
NoClock == [now |-> 0, expires |-> <<>>]

\* except (cassandra.Unavailable, cassandra.Timeout,
\*         cassandra.CoordinationFailure, cassandra.OperationTimedOut)
\* ReadTimeout and WriteTimeout are subclasses of Timeout.
Caught == {"Unavailable", "Timeout", "ReadTimeout", "WriteTimeout",
           "CoordinationFailure", "OperationTimedOut"}

\* The exception that leaves a handler whose try block raised exc.
Reraised(exc) ==
  IF exc \in Caught THEN "AppScaleDBConnectionError" ELSE exc

(***************************************************************************)
(* Calls of the operations of DatastoreProxy.                              *)
(***************************************************************************)
NoCall ==
  [op |-> None, pc |-> "idle", argtypes |-> <<>>, table |-> None,
   keys |-> <<>>, cols |-> <<>>, vals |-> <<>>, ttl |-> None, muts |-> <<>>,
   idx |-> 1, prepared |-> [insert |-> {}, delete |-> {}], batch |-> <<>>,
   stmt |-> NoStatement, retry_num |-> 0, attempts |-> 0, executes |-> 0,
   prepares |-> 0, result |-> None, err |-> None, cause |-> None,
   pre |-> <<>>, offset |-> 0, keys_only |-> FALSE, creates |-> 0,
   writes |-> 0, limit |-> <<>>, bounds |-> <<>>,
   last |-> <<>>, seq |-> 0, at |-> 0]

\* seq numbers the calls of the instance in the order they are made.
NewCall(op, args) ==
  [NoCall EXCEPT !.op = op, !.argtypes = [i \in 1..Len(args) |-> args[i].ty],
                 !.seq = nops + 1]

\* An engine that takes no further call once a call on it has failed.
CanCallUnlessFailed ==
  /\ ctor_pc = "returned"
  /\ call.pc \in {"idle", "returned"}
  /\ parked.pc # "raised"

\* A caller may start an operation on a constructed engine when no call of
\* its own is in progress.
CanCall ==
  /\ ctor_pc = "returned"
  /\ call.pc \in {"idle", "returned", "raised"}

Raise(c, exc) == [c EXCEPT !.pc = "raised", !.err = exc]

\* The try block of a handler raised exc: the handler's except clause.
Fail(c, exc) == [c EXCEPT !.pc = "raised", !.err = Reraised(exc), !.cause = exc]
\* at is the time of the cluster at which the handler returns.
Return(c, result) ==
  [c EXCEPT !.pc = "returned", !.result = result, !.at = clock.now]

\* The operation and the table of the last write that returned, <<>> when
\* there is none: what a call on a table follows.
LastWrite ==
  IF hist.pc = "returned" THEN <<hist.op, hist.table>> ELSE <<>>

\* The handler calls session.execute(stmt).
Execute(c, stmt) ==
  [c EXCEPT !.pc = "execute", !.stmt = stmt, !.retry_num = 0,
            !.executes = @ + 1]

\* The handler calls session.prepare(...) of a statement on a table.
Prepare(c, kind, table) ==
  [c EXCEPT !.pc = "prepare", !.prepares = @ + 1,
            !.stmt = Statement(kind, table, {}, {}, <<>>, None, None)]

(***************************************************************************)
(* batch_get_entity                                                        *)
(***************************************************************************)
RECURSIVE GetResultFold(_, _, _)
\* for (key, column, value) in results: results_dict[key][column] = value
GetResultFold(rows, i, results_dict) ==
  IF i > Len(rows) THEN results_dict
  ELSE LET key    == rows[i][1]
           column == rows[i][2]
           value  == FromBlob(rows[i][3])
           d1 == IF key \notin DOMAIN results_dict
                   THEN (key :> <<>>) @@ results_dict
                   ELSE results_dict
           d2 == [d1 EXCEPT ![key] = (column :> value) @@ @]
       IN GetResultFold(rows, i + 1, d2)

\* results_dict = {row_key: {} for row_key in row_keys}, then the loop.
GetResult(row_keys, rows) ==
  GetResultFold(rows, 1, [k \in Range(row_keys) |-> <<>>])

batch_get_entity(table_name, row_keys, column_names) ==
  /\ CanCall
  /\ nops' = nops + 1
  /\ LET c == NewCall("batch_get_entity", <<table_name, row_keys, column_names>>)
     IN IF \/ ~IsInstance(table_name, {"str"})
           \/ ~IsInstance(column_names, {"list"})
           \/ ~IsInstance(row_keys, {"list"})
          THEN call' = Raise(c, "TypeError")
          ELSE LET row_keys_bytes ==
                     [i \in 1..Len(row_keys.val) |->
                        ToBlob(ByteArray(Str(row_keys.val[i])))]
                   query == Statement("SELECT_IN", table_name.val,
                                      Range(row_keys_bytes),
                                      Range(column_names.val), <<>>,
                                      retry_policy, default_consistency_level)
               IN call' = Execute([c EXCEPT !.table = table_name.val,
                                            !.keys = row_keys.val,
                                            !.cols = column_names.val],
                                  query)
  /\ UNCHANGED <<ctor_vars, pol, stats_vars, rpc_vars, parked, clock, db, hist>>

\* One attempt of the SELECT and, when it succeeds, the rest of the handler.
batch_get_entity_execute(outcome) ==
  /\ call.op = "batch_get_entity"
  /\ call.pc = "execute"
  /\ call.retry_num <= MaxRetryNum
  /\ LET r == Attempt(db, call, outcome)
     IN call' = CASE r.now = "ok" ->
                       Return(r.call, GetResult(call.keys, SelectIn(db, call.stmt)))
                  [] r.now = "retry" -> r.call
                  [] OTHER -> Fail(r.call, r.exc)
  /\ UNCHANGED <<ctor_vars, pol, stats_vars, rpc_vars, parked, clock, db, nops, hist>>

(***************************************************************************)
(* batch_put_entity                                                        *)
(***************************************************************************)
\* The loops leaving the inner one after the first column.
LoopPairsFirstColumn(row_keys, column_names) ==
  [i \in 1..Len(row_keys) |-> <<row_keys[i], column_names[1]>>]

\* An insert statement that never gets a TTL.
TtlClauseNone(ttl) == <<>>

\* if ttl is not None: insert_str += 'USING TTL {}'.format(ttl)
\* <<n>> for USING TTL n, <<>> for a statement without it.
TtlClause(ttl) == IF ttl.ty = "NoneType" THEN <<>> ELSE <<IntOf(ttl)>>

\* The (row_key, column) pairs in the order of the two nested loops.
LoopPairs(row_keys, column_names) ==
  [i \in 1..(Len(row_keys) * Len(column_names)) |->
     <<row_keys[((i - 1) \div Len(column_names)) + 1],
       column_names[((i - 1) % Len(column_names)) + 1]>>]

\* cell_values[row_key][column] raises KeyError.
Missing(cell_values, pair) ==
  \/ pair[1] \notin DOMAIN cell_values
  \/ pair[2] \notin DOMAIN cell_values[pair[1]]

\* The loop of batch_put_entity skipping the values that are false in
\* Python, the empty string among them.
PutItemsSkipEmpty(table, row_keys, column_names, cell_values) ==
  LET pairs == LoopPairs(row_keys, column_names)
      all == [i \in 1..Len(pairs) |->
                Bound("INSERT", table, ToBlob(ByteArray(Str(pairs[i][1]))),
                      pairs[i][2],
                      ToBlob(ByteArray(cell_values[pairs[i][1]][pairs[i][2]])))]
      filled(item) == item.value # <<>>
  IN SelectSeq(all, filled)

\* batch_insert.add(statement, (bytearray(row_key), column,
\*                              bytearray(cell_values[row_key][column])))
\* for every pair of the two loops.
PutItems(table, row_keys, column_names, cell_values) ==
  LET pairs == LoopPairs(row_keys, column_names)
  IN [i \in 1..Len(pairs) |->
        Bound("INSERT", table, ToBlob(ByteArray(Str(pairs[i][1]))),
              pairs[i][2],
              ToBlob(ByteArray(cell_values[pairs[i][1]][pairs[i][2]])))]

batch_put_entity(table_name, row_keys, column_names, cell_values, ttl) ==
  /\ CanCall
  /\ nops' = nops + 1
  /\ LET c == NewCall("batch_put_entity",
                      <<table_name, row_keys, column_names, cell_values>>)
     IN IF \/ ~IsInstance(table_name, {"str"})
           \/ ~IsInstance(column_names, {"list"})
           \/ ~IsInstance(row_keys, {"list"})
           \/ ~IsInstance(cell_values, {"dict"})
          THEN call' = Raise(c, "TypeError")
          ELSE call' = Prepare([c EXCEPT !.table = table_name.val,
                                         !.keys = row_keys.val,
                                         !.cols = column_names.val,
                                         !.vals = cell_values.val,
                                         !.ttl = ttl,
                                         !.pre = db],
                               "PREPARE_INSERT", table_name.val)
  /\ hist' = NoCall
  /\ UNCHANGED <<ctor_vars, pol, stats_vars, rpc_vars, parked, clock, db>>

\* session.prepare(insert_str) answers; the handler then fills the batch and
\* calls session.execute(batch_insert).
batch_put_entity_prepare(outcome) ==
  /\ call.op = "batch_put_entity"
  /\ call.pc = "prepare"
  /\ LET eff   == Effective(db, call.stmt, outcome)
         pairs == LoopPairs(call.keys, call.cols)
     IN call' = IF eff # "ok" THEN Raise(call, eff)
                ELSE IF \E i \in 1..Len(pairs) : Missing(call.vals, pairs[i])
                  THEN Raise(call, "KeyError")
                  ELSE Execute(call,
                               [Statement("BATCH", call.table, {}, {},
                                          PutItems(call.table, call.keys,
                                                   call.cols, call.vals),
                                          retry_policy,
                                          default_consistency_level)
                                  EXCEPT !.ttl = TtlClause(call.ttl)])
  /\ UNCHANGED <<ctor_vars, pol, stats_vars, rpc_vars, parked, clock, db, nops, hist>>

\* One attempt of a writing statement of operation op and, when the
\* statement is through, the rest of the handler.
WriteExecute(op, outcome, applied) ==
  /\ call.op = op
  /\ call.pc = "execute"
  /\ call.retry_num <= MaxRetryNum
  /\ LET r == Attempt(db, call, outcome)
     IN call' = CASE r.now = "ok" -> Return(r.call, None)
                  [] r.now = "retry" -> r.call
                  [] OTHER -> Fail(r.call, r.exc)
  /\ db' = AfterAttempt(db, call.stmt, outcome, applied)
  /\ clock' = AfterAttemptClock(clock, db, call.stmt, outcome, applied)
  /\ hist' = IF call'.pc = "returned" THEN call' ELSE hist
  /\ UNCHANGED <<ctor_vars, pol, stats_vars, rpc_vars, parked, nops>>

batch_put_entity_execute(outcome, applied) ==
  WriteExecute("batch_put_entity", outcome, applied)

(***************************************************************************)
(* batch_mutate                                                            *)
(***************************************************************************)
PUT == "PUT"
DELETE == "DELETE"
ColumnSeq == <<"c1", "c2">>

Mutation(table, operation, key, values) ==
  [table |-> table, operation |-> operation, key |-> key, values |-> values]

\* The loop over the columns of a PUT leaving after its first column.
InsertItemsFirstOnly(mutation) ==
  LET present(column) == column \in DOMAIN mutation.values
      columns == SelectSeq(ColumnSeq, present)
  IN [i \in 1..(IF Len(columns) > 0 THEN 1 ELSE 0) |->
        Bound("INSERT", mutation.table, ToBlob(ByteArray(Str(mutation.key))),
              columns[i], ToBlob(ByteArray(mutation.values[columns[i]])))]

\* for column in values: batch.add(insert, (key, column, values[column]))
InsertItems(mutation) ==
  LET present(column) == column \in DOMAIN mutation.values
      columns == SelectSeq(ColumnSeq, present)
  IN [i \in 1..Len(columns) |->
        Bound("INSERT", mutation.table, ToBlob(ByteArray(Str(mutation.key))),
              columns[i], ToBlob(ByteArray(mutation.values[columns[i]])))]

DeleteItem(mutation) ==
  Bound("DELETE", mutation.table, ToBlob(ByteArray(Str(mutation.key))),
        None, <<>>)

\* The batch of batch_mutate created with retry_policy=self.retry_policy.
MutateBatchRetried(items) ==
  Statement("BATCH", None, {}, {}, items, retry_policy, QUORUM)

\* The batch of batch_mutate created with the engine's retry policy.
MutateBatchWithPolicy(items) ==
  Statement("BATCH", None, {}, {}, items, "IdempotentRetryPolicy", QUORUM)

\* batch = BatchStatement(consistency_level=ConsistencyLevel.QUORUM), with
\* the statements the loop added to it.
MutateBatch(items) == Statement("BATCH", None, {}, {}, items, None, QUORUM)

RECURSIVE MutateLoop(_)
\* The for loop over the mutations, from mutation c.idx up to the next call
\* of the session: a prepare of a table met for the first time, or the
\* execute after the loop.
MutateLoop(c) ==
  IF c.idx > Len(c.muts)
    THEN Execute(c, MutateBatch(c.batch))
  ELSE
    LET mutation == c.muts[c.idx]
        table == mutation.table
    IN CASE mutation.operation = PUT ->
              IF table \notin c.prepared.insert
                THEN Prepare(c, "PREPARE_INSERT", table)
                ELSE MutateLoop([c EXCEPT !.batch = @ \o InsertItems(mutation),
                                          !.idx = @ + 1])
         [] mutation.operation = DELETE ->
              IF table \notin c.prepared.delete
                THEN Prepare(c, "PREPARE_DELETE", table)
                ELSE MutateLoop([c EXCEPT !.batch = Append(@, DeleteItem(mutation)),
                                          !.idx = @ + 1])
         [] OTHER -> MutateLoop([c EXCEPT !.idx = @ + 1])

batch_mutate(mutations) ==
  /\ CanCall
  /\ nops' = nops + 1
  /\ call' = MutateLoop([NewCall("batch_mutate", <<mutations>>)
                           EXCEPT !.muts = mutations.val, !.pre = db])
  /\ hist' = NoCall
  /\ UNCHANGED <<ctor_vars, pol, stats_vars, rpc_vars, parked, clock, db>>

\* The loop going on with the statement just prepared and keeping none: the
\* mutation is added to the batch and the next one prepares again.
batch_mutate_prepare_uncached(outcome) ==
  /\ call.op = "batch_mutate"
  /\ call.pc = "prepare"
  /\ LET eff == Effective(db, call.stmt, outcome)
         mutation == call.muts[call.idx]
     IN call' = IF eff # "ok" THEN Raise(call, eff)
                ELSE IF call.stmt.kind = "PREPARE_INSERT"
                  THEN MutateLoop([call EXCEPT !.batch = @ \o InsertItems(mutation),
                                               !.idx = @ + 1])
                  ELSE MutateLoop([call EXCEPT !.batch = Append(@, DeleteItem(mutation)),
                                               !.idx = @ + 1])
  /\ UNCHANGED <<ctor_vars, pol, stats_vars, rpc_vars, parked, clock, db, nops, hist>>

\* session.prepare(...) of prepare_insert or prepare_delete answers; the
\* statement is cached and the loop goes on.
batch_mutate_prepare(outcome) ==
  /\ call.op = "batch_mutate"
  /\ call.pc = "prepare"
  /\ LET eff == Effective(db, call.stmt, outcome)
         t   == call.stmt.table
     IN call' = IF eff # "ok" THEN Raise(call, eff)
                ELSE IF call.stmt.kind = "PREPARE_INSERT"
                  THEN MutateLoop([call EXCEPT !.prepared.insert = @ \cup {t}])
                  ELSE MutateLoop([call EXCEPT !.prepared.delete = @ \cup {t}])
  /\ UNCHANGED <<ctor_vars, pol, stats_vars, rpc_vars, parked, clock, db, nops, hist>>

batch_mutate_execute(outcome, applied) ==
  WriteExecute("batch_mutate", outcome, applied)

(***************************************************************************)
(* batch_delete, delete_table, create_table                                *)
(***************************************************************************)
batch_delete(table_name, row_keys, column_names) ==
  /\ CanCall
  /\ nops' = nops + 1
  /\ LET c == NewCall("batch_delete", <<table_name, row_keys, column_names>>)
     IN IF \/ ~IsInstance(table_name, {"str"})
           \/ ~IsInstance(row_keys, {"list"})
          THEN call' = Raise(c, "TypeError")
          ELSE LET row_keys_bytes ==
                     [i \in 1..Len(row_keys.val) |->
                        ToBlob(ByteArray(Str(row_keys.val[i])))]
                   query == Statement("DELETE_IN", table_name.val,
                                      Range(row_keys_bytes), {}, <<>>,
                                      retry_policy, default_consistency_level)
               IN call' = Execute([c EXCEPT !.table = table_name.val,
                                            !.keys = row_keys.val,
                                            !.pre = db],
                                  query)
  /\ hist' = NoCall
  /\ UNCHANGED <<ctor_vars, pol, stats_vars, rpc_vars, parked, clock, db>>

batch_delete_execute(outcome, applied) ==
  WriteExecute("batch_delete", outcome, applied)

delete_table(table_name) ==
  /\ CanCall
  /\ nops' = nops + 1
  /\ LET c == NewCall("delete_table", <<table_name>>)
     IN IF ~IsInstance(table_name, {"str"})
          THEN call' = Raise(c, "TypeError")
          ELSE call' = Execute([c EXCEPT !.table = table_name.val,
                                         !.pre = db,
                                         !.last = LastWrite],
                               Statement("DROP", table_name.val, {}, {}, <<>>,
                                         retry_policy,
                                         default_consistency_level))
  /\ hist' = NoCall
  /\ UNCHANGED <<ctor_vars, pol, stats_vars, rpc_vars, parked, clock, db>>

delete_table_execute(outcome, applied) ==
  WriteExecute("delete_table", outcome, applied)

\* query = SimpleStatement(statement): no retry policy.
CreateStatement(table) ==
  Statement("CREATE", table, {}, {}, <<>>, None, default_consistency_level)

create_table(table_name, column_names) ==
  /\ CanCall
  /\ nops' = nops + 1
  /\ LET c == NewCall("create_table", <<table_name, column_names>>)
     IN IF \/ ~IsInstance(table_name, {"str"})
           \/ ~IsInstance(column_names, {"list"})
          THEN call' = Raise(c, "TypeError")
          ELSE call' = Execute([c EXCEPT !.table = table_name.val,
                                         !.creates = @ + 1,
                                         !.pre = db,
                                         !.last = LastWrite],
                               CreateStatement(table_name.val))
  /\ hist' = NoCall
  /\ UNCHANGED <<ctor_vars, pol, stats_vars, rpc_vars, parked, clock, db>>

create_table_execute(outcome, applied) ==
  WriteExecute("create_table", outcome, applied)

(***************************************************************************)
(* range_query                                                             *)
(***************************************************************************)
\* The six isinstance checks of range_query with the check of offset left
\* out.
RangeQueryTypeErrorNoOffset(table_name, column_names, start_key, end_key, limit, offset) ==
  \/ ~IsInstance(table_name, {"str"})
  \/ ~IsInstance(column_names, {"list"})
  \/ ~IsInstance(start_key, {"str"})
  \/ ~IsInstance(end_key, {"str"})
  \/ ~IsInstance(limit, {"int", "long"}) /\ limit.ty # "NoneType"

\* One of the six isinstance checks of range_query raises TypeError.
RangeQueryTypeError(table_name, column_names, start_key, end_key, limit, offset) ==
  \/ ~IsInstance(table_name, {"str"})
  \/ ~IsInstance(column_names, {"list"})
  \/ ~IsInstance(start_key, {"str"})
  \/ ~IsInstance(end_key, {"str"})
  \/ ~IsInstance(limit, {"int", "long"}) /\ limit.ty # "NoneType"
  \/ ~IsInstance(offset, {"int", "long"})

\* A LIMIT one cell short of limit rows of all the columns.
QueryLimitShort(column_names, limit) ==
  IF limit.ty = "NoneType" THEN <<>>
  ELSE <<Len(column_names.val) * IntOf(limit) - 1>>

\* A LIMIT of limit cells, whatever the number of columns.
QueryLimitCells(column_names, limit) ==
  IF limit.ty = "NoneType" THEN <<>> ELSE <<IntOf(limit)>>

\* query_limit: 'LIMIT {}'.format(len(column_names) * limit) unless limit
\* is None.
QueryLimit(column_names, limit) ==
  IF limit.ty = "NoneType" THEN <<>>
  ELSE <<Len(column_names.val) * IntOf(limit)>>

\* The WHERE clause with both comparisons chosen by start_inclusive.
RangeClauseOneFlag(start_key, end_key, start_inclusive, end_inclusive, query_limit) ==
  [start_key |-> ToBlob(ByteArray(start_key)),
   end_key |-> ToBlob(ByteArray(end_key)),
   gt_inclusive |-> start_inclusive,
   lt_inclusive |-> start_inclusive,
   limit |-> query_limit]

\* gt_compare is '>=' if start_inclusive and '>' otherwise, lt_compare '<=' if
\* end_inclusive and '<' otherwise; the two parameters of the comparisons are
\* bytearray(start_key) and bytearray(end_key).
RangeClause(start_key, end_key, start_inclusive, end_inclusive, query_limit) ==
  [start_key |-> ToBlob(ByteArray(start_key)),
   end_key |-> ToBlob(ByteArray(end_key)),
   gt_inclusive |-> start_inclusive,
   lt_inclusive |-> end_inclusive,
   limit |-> query_limit]

RECURSIVE RangeFold(_, _, _, _, _, _)
\* The for loop over the rows of the result.  current_key is <<key>>, or <<>>
\* while it is None.
RangeFold(rows, i, keys_only, results_list, current_item, current_key) ==
  IF i > Len(rows)
    THEN [results_list |-> results_list, current_item |-> current_item,
          current_key |-> current_key]
  ELSE LET key    == FromBlob(rows[i][1]).val
           column == rows[i][2]
           value  == FromBlob(rows[i][3])
       IN IF keys_only
            THEN RangeFold(rows, i + 1, keys_only, Append(results_list, key),
                           current_item, current_key)
          ELSE IF <<key>> # current_key
            THEN RangeFold(rows, i + 1, keys_only,
                           IF DOMAIN current_item # {}
                             THEN Append(results_list,
                                         (current_key[1] :> current_item))
                             ELSE results_list,
                           (column :> value), <<key>>)
          ELSE RangeFold(rows, i + 1, keys_only, results_list,
                         (column :> value) @@ current_item, current_key)

\* results_list[:len(results_list) - offset], the cut made at the other end.
SliceUpTo(list, offset) ==
  SubSeq(list, 1, IF Len(list) > offset THEN Len(list) - offset ELSE 0)

\* results_list[offset:]
SliceFrom(list, offset) ==
  LET first == IF offset >= 0 THEN offset
               ELSE IF Len(list) + offset > 0 THEN Len(list) + offset ELSE 0
  IN SubSeq(list, first + 1, Len(list))

\* The loop without the append of the last item after it.
RangeResultUnflushed(rows, keys_only, offset) ==
  SliceFrom(RangeFold(rows, 1, keys_only, <<>>, <<>>, <<>>).results_list,
            offset)

\* What range_query returns for the rows the cluster answered.
RangeResult(rows, keys_only, offset) ==
  LET after == RangeFold(rows, 1, keys_only, <<>>, <<>>, <<>>)
      results_list ==
        IF DOMAIN after.current_item # {}
          THEN Append(after.results_list,
                      (after.current_key[1] :> after.current_item))
          ELSE after.results_list
  IN SliceFrom(results_list, offset)

range_query(table_name, column_names, start_key, end_key, limit, offset, start_inclusive, end_inclusive, keys_only) ==
  /\ CanCall
  /\ nops' = nops + 1
  /\ LET c == NewCall("range_query", <<table_name, column_names, start_key,
                                       end_key, limit, offset>>)
     IN IF RangeQueryTypeError(table_name, column_names, start_key, end_key,
                               limit, offset)
          THEN call' = Raise(c, "TypeError")
          ELSE LET query ==
                     [Statement("SELECT_RANGE", table_name.val, {},
                                Range(column_names.val), <<>>,
                                retry_policy, default_consistency_level)
                        EXCEPT !.range =
                          RangeClause(start_key, end_key, start_inclusive,
                                      end_inclusive,
                                      QueryLimit(column_names, limit))]
               IN call' = Execute([c EXCEPT !.table = table_name.val,
                                            !.cols = column_names.val,
                                            !.limit =
                                              IF limit.ty = "NoneType"
                                                THEN <<>>
                                                ELSE <<IntOf(limit)>>,
                                            !.offset = IntOf(offset),
                                            !.keys_only = keys_only,
                                            !.bounds =
                                              <<start_key.val, end_key.val,
                                                start_inclusive,
                                                end_inclusive>>],
                                  query)
  /\ UNCHANGED <<ctor_vars, pol, stats_vars, rpc_vars, parked, clock, db, hist>>

\* One attempt of the SELECT and, when it succeeds, the rest of the handler.
range_query_execute(outcome) ==
  /\ call.op = "range_query"
  /\ call.pc = "execute"
  /\ call.retry_num <= MaxRetryNum
  /\ LET r == Attempt(db, call, outcome)
     IN call' = CASE r.now = "ok" ->
                       Return(r.call,
                              RangeResult(SelectRange(db, call.stmt),
                                          call.keys_only, call.offset))
                  [] r.now = "retry" -> r.call
                  [] OTHER -> Fail(r.call, r.exc)
  /\ UNCHANGED <<ctor_vars, pol, stats_vars, rpc_vars, parked, clock, db, nops, hist>>

(***************************************************************************)
(* set_metadata                                                            *)
(***************************************************************************)
\* dbconstants.DATASTORE_METADATA_TABLE and its schema, the two arguments of
\* the create_table call in set_metadata.
DATASTORE_METADATA_TABLE == "M"
DATASTORE_METADATA_SCHEMA == Obj("list", <<"c1">>)

\* The metadata keys of the model, and the text a str is when the driver
\* writes it into the text column.
MetaKeys == {<<118>>}
VERSION_INFO_KEY == <<118, 101, 114, 115, 105, 111, 110>>
PRIMED_KEY == <<112, 114, 105, 109, 101, 100>>
Text(obj) ==
  CASE obj.val = <<118>> -> "v"
    [] obj.val = VERSION_INFO_KEY -> "version"
    [] obj.val = PRIMED_KEY -> "primed"
    [] OTHER -> "?"

\* INSERT INTO table (key, column1, value) VALUES
\*   (bytearray(key), key, bytearray(value)), a plain string statement.
MetadataInsert(key, value) ==
  Statement("INSERT", DATASTORE_METADATA_TABLE, {}, {},
            <<Bound("INSERT", DATASTORE_METADATA_TABLE,
                    ToBlob(ByteArray(key)), Text(key),
                    ToBlob(ByteArray(value)))>>,
            None, default_consistency_level)

set_metadata(key, value) ==
  /\ CanCall
  /\ nops' = nops + 1
  /\ LET c == NewCall("set_metadata", <<key, value>>)
     IN IF ~IsInstance(key, {"str"}) \/ ~IsInstance(value, {"str"})
          THEN call' = Raise(c, "TypeError")
          ELSE call' = Execute([c EXCEPT !.table = DATASTORE_METADATA_TABLE,
                                         !.keys = <<key.val>>,
                                         !.vals = (key.val :> value),
                                         !.pre = db],
                               MetadataInsert(key, value))
  /\ hist' = NoCall
  /\ UNCHANGED <<ctor_vars, pol, stats_vars, rpc_vars, parked, clock, db>>

\* The attempt of the INSERT inside the try block.  InvalidRequest leads
\* into create_table(DATASTORE_METADATA_TABLE, DATASTORE_METADATA_SCHEMA), up
\* to its session.execute.
set_metadata_execute(outcome, applied) ==
  /\ call.op = "set_metadata"
  /\ call.pc = "execute"
  /\ LET r == Attempt(db, [call EXCEPT !.writes = @ + 1], outcome)
     IN call' =
          CASE r.now = "ok" -> Return(r.call, None)
            [] r.now = "retry" -> r.call
            [] r.exc = "InvalidRequest" ->
                 IF \/ ~IsInstance(Obj("str", DATASTORE_METADATA_TABLE), {"str"})
                    \/ ~IsInstance(DATASTORE_METADATA_SCHEMA, {"list"})
                   THEN Raise(r.call, "TypeError")
                   ELSE [Execute(r.call, CreateStatement(DATASTORE_METADATA_TABLE))
                           EXCEPT !.pc = "create", !.creates = @ + 1]
            [] OTHER -> Fail(r.call, r.exc)
  /\ db' = AfterAttempt(db, call.stmt, outcome, applied)
  /\ clock' = AfterAttemptClock(clock, db, call.stmt, outcome, applied)
  /\ hist' = IF call'.pc = "returned" THEN call' ELSE hist
  /\ UNCHANGED <<ctor_vars, pol, stats_vars, rpc_vars, parked, nops>>

\* The InvalidRequest handler returning after create_table, without the
\* second session.execute.
set_metadata_create_no_write(outcome, applied) ==
  /\ call.op = "set_metadata"
  /\ call.pc = "create"
  /\ LET r == Attempt(db, call, outcome)
     IN call' = CASE r.now = "ok" -> Return(r.call, None)
                  [] r.now = "retry" -> r.call
                  [] OTHER -> Fail(r.call, r.exc)
  /\ db' = AfterAttempt(db, call.stmt, outcome, applied)
  /\ clock' = AfterAttemptClock(clock, db, call.stmt, outcome, applied)
  /\ hist' = IF call'.pc = "returned" THEN call' ELSE hist
  /\ UNCHANGED <<ctor_vars, pol, stats_vars, rpc_vars, parked, nops>>

\* The attempt of the CREATE TABLE of the nested create_table; when it
\* returns, the handler calls session.execute(statement, parameters) again.
set_metadata_create(outcome, applied) ==
  /\ call.op = "set_metadata"
  /\ call.pc = "create"
  /\ LET r == Attempt(db, call, outcome)
     IN call' =
          CASE r.now = "ok" ->
                 [Execute(r.call,
                          MetadataInsert(Str(call.keys[1]),
                                         call.vals[call.keys[1]]))
                    EXCEPT !.pc = "again"]
            [] r.now = "retry" -> r.call
            [] OTHER -> Fail(r.call, r.exc)
  /\ db' = AfterAttempt(db, call.stmt, outcome, applied)
  /\ clock' = AfterAttemptClock(clock, db, call.stmt, outcome, applied)
  /\ UNCHANGED <<ctor_vars, pol, stats_vars, rpc_vars, parked, nops, hist>>

\* The second INSERT handling its failure as the first one does, by another
\* create_table.
set_metadata_again_loop(outcome, applied) ==
  /\ call.op = "set_metadata"
  /\ call.pc = "again"
  /\ LET r == Attempt(db, [call EXCEPT !.writes = @ + 1], outcome)
     IN call' =
          CASE r.now = "ok" -> Return(r.call, None)
            [] r.now = "retry" -> r.call
            [] OTHER ->
                 [Execute(r.call, CreateStatement(DATASTORE_METADATA_TABLE))
                    EXCEPT !.pc = "create", !.creates = @ + 1]
  /\ db' = AfterAttempt(db, call.stmt, outcome, applied)
  /\ clock' = AfterAttemptClock(clock, db, call.stmt, outcome, applied)
  /\ hist' = IF call'.pc = "returned" THEN call' ELSE hist
  /\ UNCHANGED <<ctor_vars, pol, stats_vars, rpc_vars, parked, nops>>

\* The attempt of the second INSERT, outside the try block: its exception
\* leaves set_metadata as it is.
set_metadata_again(outcome, applied) ==
  /\ call.op = "set_metadata"
  /\ call.pc = "again"
  /\ LET r == Attempt(db, [call EXCEPT !.writes = @ + 1], outcome)
     IN call' =
          CASE r.now = "ok" -> Return(r.call, None)
            [] r.now = "retry" -> r.call
            [] OTHER -> [Raise(r.call, r.exc) EXCEPT !.cause = r.exc]
  /\ db' = AfterAttempt(db, call.stmt, outcome, applied)
  /\ clock' = AfterAttemptClock(clock, db, call.stmt, outcome, applied)
  /\ hist' = IF call'.pc = "returned" THEN call' ELSE hist
  /\ UNCHANGED <<ctor_vars, pol, stats_vars, rpc_vars, parked, nops>>

(***************************************************************************)
(* get_metadata and valid_data_version                                     *)
(***************************************************************************)
\* The data layout version the datastore expects, 1.0, in tenths.
EXPECTED_DATA_VERSION == 10

Digits == 48..57
Dot == 46

RECURSIVE Digits2Nat(_)
\* The number a sequence of decimal digits writes.
Digits2Nat(ds) ==
  IF Len(ds) = 0 THEN 0
  ELSE 10 * Digits2Nat(SubSeq(ds, 1, Len(ds) - 1)) + (ds[Len(ds)] - 48)

RECURSIVE Pow10(_)
Pow10(k) == IF k = 0 THEN 1 ELSE 10 * Pow10(k - 1)

\* float(s) of a str holding a plain decimal literal: <<n, k>> for the
\* number n / 10^k, or <<>> where float raises ValueError.
Float(obj) ==
  LET bytes == obj.val
      isDigit(b) == b \in Digits
      isDot(b) == b = Dot
      digits == SelectSeq(bytes, isDigit)
      dots == SelectSeq(bytes, isDot)
      dotAt == CHOOSE i \in 1..Len(bytes) : bytes[i] = Dot
  IN IF \/ Len(digits) = 0
        \/ Len(dots) > 1
        \/ Len(digits) + Len(dots) # Len(bytes)
       THEN <<>>
     ELSE IF Len(dots) = 0 THEN <<Digits2Nat(digits), 0>>
     ELSE <<Digits2Nat(digits), Len(bytes) - dotAt>>

\* float(version) == EXPECTED_DATA_VERSION
IsExpectedVersion(f) == f[1] * 10 = EXPECTED_DATA_VERSION * Pow10(f[2])

\* The cell a metadata key is kept in.
MetadataCell(key) == <<ToBlob(ByteArray(key)), Text(key)>>

\* SELECT value FROM table WHERE key = %s AND column1 = %s, a plain string
\* statement, with (bytearray(key), key).
MetadataSelect(key) ==
  Statement("SELECT_ONE", DATASTORE_METADATA_TABLE,
            {ToBlob(ByteArray(key))}, {Text(key)}, <<>>,
            None, default_consistency_level)

\* The rows of the SELECT of one cell.
SelectOne(d, stmt) ==
  LET cell == <<CHOOSE k \in stmt.keys : TRUE, CHOOSE c \in stmt.cols : TRUE>>
  IN IF cell \in DOMAIN d[stmt.table]
       THEN << <<cell[1], cell[2], d[stmt.table][cell]>> >>
       ELSE <<>>

\* return results[0].value, or None on IndexError
FirstValue(rows) ==
  IF Len(rows) = 0 THEN Obj("NoneType", None) ELSE FromBlob(rows[1][3])

get_metadata(key) ==
  /\ CanCall
  /\ nops' = nops + 1
  /\ call' = Execute([NewCall("get_metadata", <<key>>)
                        EXCEPT !.table = DATASTORE_METADATA_TABLE,
                               !.keys = <<key.val>>],
                     MetadataSelect(key))
  /\ UNCHANGED <<ctor_vars, pol, stats_vars, rpc_vars, parked, clock, db, hist>>

get_metadata_execute(outcome) ==
  /\ call.op = "get_metadata"
  /\ call.pc = "execute"
  /\ LET r == Attempt(db, call, outcome)
     IN call' = CASE r.now = "ok" ->
                       Return(r.call, FirstValue(SelectOne(db, call.stmt)))
                  [] r.now = "retry" -> r.call
                  [] OTHER -> Fail(r.call, r.exc)
  /\ UNCHANGED <<ctor_vars, pol, stats_vars, rpc_vars, parked, clock, db, nops, hist>>

\* valid_data_version up to the session.execute of its get_metadata.
valid_data_version ==
  /\ CanCall
  /\ nops' = nops + 1
  /\ call' = Execute([NewCall("valid_data_version", <<>>)
                        EXCEPT !.table = DATASTORE_METADATA_TABLE,
                               !.keys = <<VERSION_INFO_KEY>>],
                     MetadataSelect(Str(VERSION_INFO_KEY)))
  /\ UNCHANGED <<ctor_vars, pol, stats_vars, rpc_vars, parked, clock, db, hist>>

\* The attempt of the SELECT, the rest of get_metadata and of
\* valid_data_version.
valid_data_version_execute(outcome) ==
  /\ call.op = "valid_data_version"
  /\ call.pc = "execute"
  /\ LET r == Attempt(db, call, outcome)
         version == FirstValue(SelectOne(db, call.stmt))
     IN call' =
          CASE r.now = "ok" ->
                 IF version.ty = "NoneType" THEN Return(r.call, FALSE)
                 ELSE IF Float(version) = <<>> THEN Raise(r.call, "ValueError")
                 ELSE Return(r.call, IsExpectedVersion(Float(version)))
            [] r.now = "retry" -> r.call
            [] r.exc = "InvalidRequest" ->
                 [Return(r.call, FALSE) EXCEPT !.cause = r.exc]
            [] OTHER -> Fail(r.call, r.exc)
  /\ UNCHANGED <<ctor_vars, pol, stats_vars, rpc_vars, parked, clock, db, nops, hist>>

(***************************************************************************)
(* Specifications.                                                         *)
(***************************************************************************)
CtorStart ==
  /\ ctor_pc = "start"
  /\ remaining_retries = None
  /\ connect_attempts = 0
  /\ cluster = None
  /\ session = None
  /\ default_consistency_level = None
  /\ retry_policy = None
  /\ ctor_raised = NoError
  /\ slept = 0

\* No operation was called yet; the cluster holds the two tables, empty.
EmptyDb == [t \in Tables |-> <<>>]

StoreIdle ==
  /\ db = EmptyDb
  /\ call = NoCall
  /\ nops = 0
  /\ hist = NoCall
  /\ parked = NoCall
  /\ clock = NoClock

\* The state a successful constructor leaves.
Constructed ==
  /\ ctor_pc = "returned"
  /\ remaining_retries = INITIAL_CONNECT_RETRIES
  /\ connect_attempts = 1
  /\ cluster = "Cluster"
  /\ session = "Session"
  /\ default_consistency_level = QUORUM
  /\ retry_policy = "IdempotentRetryPolicy"
  /\ ctor_raised = NoError
  /\ slept = 0

(***************************************************************************)
(* Hermes: StatsCache (hermes/stats/subscribers/cache.py) and the handler  *)
(* that reads it (hermes/stats/handlers.py).                               *)
(***************************************************************************)
BIG_BANG_TIMESTAMP == 0

MaxCacheSize == 2   \* largest snapshots_cache_size
MaxStamp == 2       \* largest utc_timestamp of a snapshot, latest UTC time
MaxBulk == 2        \* longest list handed to bulk_receive
MaxStatsOps == 2    \* calls of StatsCache methods in one behaviour

\* A stats snapshot: its utc_timestamp, and the number of the snapshot among
\* all that were made, which tells two snapshots of one timestamp apart.
Snapshot(utc_timestamp, serial) ==
  [utc_timestamp |-> utc_timestamp, serial |-> serial]

NoStatsCache ==
  [constructed |-> FALSE, snapshots_cache |-> <<>>, snapshots_cache_size |-> 0,
   ttl |-> NoneObj]

NoStatsCall ==
  [op |-> None, pc |-> "idle", err |-> None, last_timestamp |-> NoneObj,
   clean_older |-> FALSE, added |-> <<>>, pre |-> <<>>, result |-> <<>>,
   status |-> None]

StatsIdle ==
  /\ stats_cache = NoStatsCache
  /\ stats_call = NoStatsCall
  /\ stats_clock = [now |-> 0, made |-> 0, calls |-> 0]

\* not obj, for None and for a number
Not(obj) == obj.ty = "NoneType" \/ (obj.ty \in {"int", "bool"} /\ IntOf(obj) = 0)

\* a > b of Python 2 for a number a and b a number or None: None is smaller
\* than every number.
GreaterThan(a, b) == IF b.ty = "NoneType" THEN TRUE ELSE a > IntOf(b)

\* seq[:n] for 0 <= n
TakeFirst(seq, n) == SubSeq(seq, 1, IF n < Len(seq) THEN n ELSE Len(seq))

\* seq[n:] for 0 <= n
DropFirst(seq, n) == SubSeq(seq, n + 1, Len(seq))

RECURSIVE clean_expired(_, _, _)
\* StatsCache._clean_expired: with a ttl, the snapshots at the head of the
\* cache that are older than ttl go, up to the first one that is not.
clean_expired(snapshots_cache, ttl, now) ==
  IF Not(ttl) \/ snapshots_cache = <<>> THEN snapshots_cache
  ELSE IF now - snapshots_cache[1].utc_timestamp > IntOf(ttl)
         THEN clean_expired(Tail(snapshots_cache), ttl, now)
         ELSE snapshots_cache

\* A cache cut down to its first snapshots_cache_size snapshots.
KeepOldest(snapshots_cache, snapshots_cache_size) ==
  IF Len(snapshots_cache) > snapshots_cache_size
    THEN SubSeq(snapshots_cache, 1, snapshots_cache_size)
    ELSE snapshots_cache

\* if len(cache) > size: diff = len(cache) - size; cache = cache[diff:]
RemoveOldest(snapshots_cache, snapshots_cache_size) ==
  IF Len(snapshots_cache) > snapshots_cache_size
    THEN DropFirst(snapshots_cache, Len(snapshots_cache) - snapshots_cache_size)
    ELSE snapshots_cache

StatsCanCall ==
  /\ stats_cache.constructed
  /\ stats_clock.calls < MaxStatsOps

StatsReturn(op, pre, added, result) ==
  [NoStatsCall EXCEPT !.op = op, !.pc = "returned", !.pre = pre,
                      !.added = added, !.result = result]

\* StatsCache.__init__(snapshots_cache_size, ttl)
StatsCache_init(snapshots_cache_size, ttl) ==
  /\ ~stats_cache.constructed
  /\ stats_call.pc = "idle"
  /\ IF snapshots_cache_size < 1
       THEN /\ stats_call' = [NoStatsCall EXCEPT !.op = "__init__",
                                                 !.pc = "raised",
                                                 !.err = "ValueError"]
            /\ UNCHANGED stats_cache
       ELSE /\ stats_cache' = [constructed |-> TRUE, snapshots_cache |-> <<>>,
                               snapshots_cache_size |-> snapshots_cache_size,
                               ttl |-> ttl]
            /\ stats_call' = [NoStatsCall EXCEPT !.op = "__init__",
                                                 !.pc = "returned"]
  /\ UNCHANGED <<ctor_vars, pol, store_vars, stats_clock, rpc_vars>>

\* The cache after a list of snapshots was added to it: expired snapshots
\* are removed, then the oldest ones over the cache size.
AfterReceive(stats_snapshots) ==
  RemoveOldest(clean_expired(stats_cache.snapshots_cache \o stats_snapshots,
                             stats_cache.ttl, stats_clock.now),
               stats_cache.snapshots_cache_size)

\* The snapshots made next, with the timestamps stamps.
NewSnapshots(stamps) ==
  [i \in 1..Len(stamps) |-> Snapshot(stamps[i], stats_clock.made + i)]

\* StatsCache.receive(stats_snapshot), of a snapshot just made.
receive(utc_timestamp) ==
  /\ StatsCanCall
  /\ LET added == NewSnapshots(<<utc_timestamp>>)
     IN /\ stats_cache' = [stats_cache EXCEPT !.snapshots_cache = AfterReceive(added)]
        /\ stats_call' = StatsReturn("receive", stats_cache.snapshots_cache,
                                     added, None)
  /\ stats_clock' = [stats_clock EXCEPT !.made = @ + 1, !.calls = @ + 1]
  /\ UNCHANGED <<ctor_vars, pol, store_vars, rpc_vars>>

\* StatsCache.bulk_receive(stats_snapshots), of snapshots just made.
bulk_receive(stamps) ==
  /\ StatsCanCall
  /\ LET added == NewSnapshots(stamps)
     IN /\ stats_cache' = [stats_cache EXCEPT !.snapshots_cache = AfterReceive(added)]
        /\ stats_call' = StatsReturn("bulk_receive", stats_cache.snapshots_cache,
                                     added, None)
  /\ stats_clock' = [stats_clock EXCEPT !.made = @ + Len(stamps), !.calls = @ + 1]
  /\ UNCHANGED <<ctor_vars, pol, store_vars, rpc_vars>>

\* The index of the first snapshot newer than last_timestamp, 0 for
\* StopIteration.
StartIndex(snapshots_cache, last_timestamp) ==
  LET newer == {i \in 1..Len(snapshots_cache) :
                  GreaterThan(snapshots_cache[i].utc_timestamp, last_timestamp)}
  IN IF newer = {} THEN 0 ELSE CHOOSE i \in newer : \A j \in newer : i <= j

\* get_stats_after from the try statement on, on the cache that
\* _clean_expired has left: what it returns and what it leaves as cache.
StatsAfter(snapshots_cache, last_timestamp, clean_older) ==
  LET start_index == StartIndex(snapshots_cache, last_timestamp)
  IN IF start_index = 0
       THEN [result |-> <<>>, cache |-> snapshots_cache]
       ELSE [result |-> DropFirst(snapshots_cache, start_index - 1),
             cache |-> IF clean_older
                         THEN DropFirst(snapshots_cache, start_index - 1)
                         ELSE snapshots_cache]

\* StatsCache.get_stats_after(last_timestamp, clean_older)
get_stats_after(last_timestamp, clean_older) ==
  /\ StatsCanCall
  /\ LET cleaned == clean_expired(stats_cache.snapshots_cache, stats_cache.ttl,
                                  stats_clock.now)
         r == StatsAfter(cleaned, last_timestamp, clean_older)
     IN /\ stats_cache' = [stats_cache EXCEPT !.snapshots_cache = r.cache]
        /\ stats_call' = [StatsReturn("get_stats_after",
                                      stats_cache.snapshots_cache, <<>>, r.result)
                            EXCEPT !.last_timestamp = last_timestamp,
                                   !.clean_older = clean_older]
  /\ stats_clock' = [stats_clock EXCEPT !.calls = @ + 1]
  /\ UNCHANGED <<ctor_vars, pol, store_vars, rpc_vars>>

\* HTTP_Codes.HTTP_DENIED and the status of a request that was served.
HTTP_DENIED == "HTTP_DENIED"
HTTP_OK == "HTTP_OK"

\* snapshots[len(snapshots)-limit:] or snapshots[:limit], for a limit > 0
Limited(snapshots, limit, fetch_latest_only) ==
  IF Not(limit) THEN snapshots
  ELSE IF fetch_latest_only /\ Len(snapshots) > IntOf(limit)
    THEN DropFirst(snapshots, Len(snapshots) - IntOf(limit))
    ELSE TakeFirst(snapshots, IntOf(limit))

\* CachedStatsHandler.get up to the rendering of the snapshots: a request
\* with the payload {last_utc_timestamp, limit, fetch_latest_only}.
CachedStatsHandler_get(secret_ok, last_utc_timestamp, limit, fetch_latest_only) ==
  /\ StatsCanCall
  /\ IF ~secret_ok
       THEN /\ stats_call' = [StatsReturn("CachedStatsHandler.get",
                                          stats_cache.snapshots_cache, <<>>, <<>>)
                                EXCEPT !.status = HTTP_DENIED]
            /\ UNCHANGED stats_cache
       ELSE LET cleaned == clean_expired(stats_cache.snapshots_cache,
                                         stats_cache.ttl, stats_clock.now)
                r == StatsAfter(cleaned, last_utc_timestamp, TRUE)
            IN /\ stats_cache' = [stats_cache EXCEPT !.snapshots_cache = r.cache]
               /\ stats_call' =
                    [StatsReturn("CachedStatsHandler.get",
                                 stats_cache.snapshots_cache, <<>>,
                                 Limited(r.result, limit, fetch_latest_only))
                       EXCEPT !.status = HTTP_OK,
                              !.last_timestamp = last_utc_timestamp,
                              !.clean_older = TRUE]
  /\ stats_clock' = [stats_clock EXCEPT !.calls = @ + 1]
  /\ UNCHANGED <<ctor_vars, pol, store_vars, rpc_vars>>

\* A second of UTC time passes.
StatsTick ==
  /\ stats_cache.constructed
  /\ stats_clock.now < MaxStamp
  /\ stats_clock' = [stats_clock EXCEPT !.now = @ + 1]
  /\ UNCHANGED <<ctor_vars, pol, store_vars, stats_cache, stats_call, rpc_vars>>

(***************************************************************************)
(* The RPC objects of the API proxy (google/appengine/api/apiproxy_rpc.py): *)
(* RPC, whose Wait makes the call, and RealRPC, which makes it on a worker *)
(* thread started by MakeCall.                                             *)
(***************************************************************************)
IDLE == 0
RUNNING == 1
FINISHING == 2

MaxRpcOps == 4      \* calls of methods of the RPC object in one behaviour

\* The object before its constructor ran.  thread is the worker thread of a
\* RealRPC: "unset" while there is no _thread attribute.  started counts the
\* runs of _MakeCallImpl, stub_calls the calls of stub.MakeSyncCall,
\* stub_raised is what the last of them raised, waits counts the calls of
\* Wait that got through _WaitImpl, callback_raised is what the callback
\* raised in the last of them.
NoRpc ==
  [cls |-> None, state |-> IDLE, exception |-> None, traceback |-> None,
   callback |-> None, exc_info |-> None, thread |-> "unset", started |-> 0,
   stub_calls |-> 0, stub_raised |-> None, waits |-> 0,
   callback_raised |-> None, callback_failed |-> FALSE]

NoRpcCall == [op |-> None, pc |-> "idle", err |-> None, n |-> 0]

RpcIdle ==
  /\ rpc = NoRpc
  /\ rpc_call = NoRpcCall

\* What stub.MakeSyncCall does: it returns, raises an exception of class
\* Exception or raises one that is not, such as SystemExit.
StubOutcomes == {"ok", "StubError", "SystemExit"}
\* The callbacks handed to an RPC: none, a function, and an object that
\* cannot be called.
Callbacks == {None, "function", "not_callable"}
\* What calling a function as callback does.
CallbackOutcomes == {"ok", "CallbackError"}

RpcCanCall ==
  /\ rpc.cls # None
  /\ rpc_call.pc \in {"idle", "returned", "raised"}
  /\ rpc_call.n < MaxRpcOps

RpcReturn(op) ==
  [op |-> op, pc |-> "returned", err |-> None, n |-> rpc_call.n + 1]
RpcRaise(op, exc) ==
  [op |-> op, pc |-> "raised", err |-> exc, n |-> rpc_call.n + 1]

\* RPC.__init__(callback=callback, stub=stub) and RealRPC.__init__(stub)
RPC_init(cls, callback) ==
  /\ rpc.cls = None
  /\ cls = "RealRPC" => callback = None
  /\ rpc' = [NoRpc EXCEPT !.cls = cls, !.callback = callback]
  /\ UNCHANGED <<ctor_vars, pol, store_vars, stats_vars, rpc_call>>

\* RPC._MakeCallImpl and RealRPC._MakeCallImpl: the latter starts the worker
\* thread.
MakeCallImpl(r) ==
  IF r.cls = "RealRPC"
    THEN [r EXCEPT !.thread = "running", !.state = RUNNING, !.started = @ + 1]
    ELSE [r EXCEPT !.state = RUNNING, !.started = @ + 1]

\* MakeCall without its first assert statement.
MakeCallUnchecked(callback) ==
  /\ RpcCanCall
  /\ LET r == [rpc EXCEPT !.callback = IF callback # None THEN callback ELSE @]
     IN IF r.callback \notin {None, "function"}
          THEN /\ rpc' = r
               /\ rpc_call' = RpcRaise("MakeCall", "AssertionError")
          ELSE /\ rpc' = MakeCallImpl(r)
               /\ rpc_call' = RpcReturn("MakeCall")
  /\ UNCHANGED <<ctor_vars, pol, store_vars, stats_vars>>

\* RPC.MakeCall(callback=callback): the attributes are set, then the two
\* assert statements, then _MakeCallImpl.
MakeCall(callback) ==
  /\ RpcCanCall
  /\ LET r == [rpc EXCEPT !.callback = IF callback # None THEN callback ELSE @]
     IN IF r.state # IDLE \/ r.callback \notin {None, "function"}
          THEN /\ rpc' = r
               /\ rpc_call' = RpcRaise("MakeCall", "AssertionError")
          ELSE /\ rpc' = MakeCallImpl(r)
               /\ rpc_call' = RpcReturn("MakeCall")
  /\ UNCHANGED <<ctor_vars, pol, store_vars, stats_vars>>

\* RealRPC._make_sync_call on the worker thread: an Exception of the stub is
\* stored in _exc_info, any other exception ends the thread.
RealRPC_make_sync_call(outcome) ==
  /\ rpc.thread = "running"
  /\ rpc' = [rpc EXCEPT !.thread = "finished",
                        !.stub_calls = @ + 1,
                        !.stub_raised = IF outcome = "ok" THEN None ELSE outcome,
                        !.exc_info = IF outcome = "StubError" THEN outcome ELSE @]
  /\ UNCHANGED <<ctor_vars, pol, store_vars, stats_vars, rpc_call>>

\* What the call of the callback raises: nothing without callback, TypeError
\* for an object that cannot be called.
CallbackRaises(r, callback_outcome) ==
  CASE r.callback = None -> None
    [] r.callback = "not_callable" -> "TypeError"
    [] callback_outcome = "ok" -> None
    [] OTHER -> callback_outcome

\* self._state = RPC.FINISHING; self._Callback(): an exception of the
\* callback is stored in _exception and raised again.
Finishing(r, callback_outcome) ==
  LET exc == CallbackRaises(r, callback_outcome)
  IN [r EXCEPT !.state = FINISHING,
               !.waits = @ + 1,
               !.callback_raised = exc,
               !.callback_failed = @ \/ exc # None,
               !.exception = IF exc # None THEN exc ELSE @,
               !.traceback = IF exc # None THEN "traceback" ELSE @]

\* A _WaitImpl of RealRPC that does not wait for the worker thread.
RealRPC_WaitImpl_nojoin(callback_outcome) ==
  /\ rpc_call.op = "Wait"
  /\ rpc_call.pc = "join"
  /\ LET r == Finishing(IF rpc.exc_info # None
                          THEN [rpc EXCEPT !.exception = rpc.exc_info,
                                           !.traceback = "traceback"]
                          ELSE rpc,
                        callback_outcome)
     IN /\ rpc' = r
        /\ rpc_call' = IF r.callback_raised # None
                         THEN [rpc_call EXCEPT !.pc = "raised",
                                               !.err = r.callback_raised]
                         ELSE [rpc_call EXCEPT !.pc = "returned"]
  /\ UNCHANGED <<ctor_vars, pol, store_vars, stats_vars>>

\* RealRPC._WaitImpl from the return of self._thread.join() on, and the
\* assert of Wait.
RealRPC_WaitImpl(callback_outcome) ==
  /\ rpc_call.op = "Wait"
  /\ rpc_call.pc = "join"
  /\ rpc.thread = "finished"
  /\ LET r == Finishing(IF rpc.exc_info # None
                          THEN [rpc EXCEPT !.exception = rpc.exc_info,
                                           !.traceback = "traceback"]
                          ELSE rpc,
                        callback_outcome)
     IN /\ rpc' = r
        /\ rpc_call' = IF r.callback_raised # None
                         THEN [rpc_call EXCEPT !.pc = "raised",
                                               !.err = r.callback_raised]
                         ELSE [rpc_call EXCEPT !.pc = "returned"]
  /\ UNCHANGED <<ctor_vars, pol, store_vars, stats_vars>>

\* RPC.Wait().  Of an RPC, _WaitImpl calls the stub, stores its Exception,
\* finishes and calls the callback; an exception of the stub that is not an
\* Exception leaves Wait unless the callback raises.  Of a RealRPC, Wait
\* goes up to self._thread.join(), which is an AttributeError when MakeCall
\* has not set _thread.
Wait(outcome, callback_outcome) ==
  /\ RpcCanCall
  /\ IF rpc.cls = "RealRPC"
       THEN /\ rpc_call' = IF rpc.thread = "unset"
                             THEN RpcRaise("Wait", "AttributeError")
                             ELSE [RpcReturn("Wait") EXCEPT !.pc = "join"]
            /\ UNCHANGED rpc
       ELSE LET called == [rpc EXCEPT
                             !.stub_calls = @ + 1,
                             !.stub_raised = IF outcome = "ok" THEN None ELSE outcome,
                             !.exception = IF outcome = "StubError" THEN outcome ELSE @,
                             !.traceback = IF outcome = "StubError" THEN "traceback" ELSE @]
                r == Finishing(called, callback_outcome)
            IN /\ rpc' = r
               /\ rpc_call' =
                    CASE r.callback_raised # None ->
                           RpcRaise("Wait", r.callback_raised)
                      [] outcome = "SystemExit" -> RpcRaise("Wait", outcome)
                      [] OTHER -> RpcReturn("Wait")
  /\ UNCHANGED <<ctor_vars, pol, store_vars, stats_vars>>

\* RPC.CheckSuccess(): raises the stored exception, if any.
CheckSuccess ==
  /\ RpcCanCall
  /\ rpc_call' = IF rpc.exception # None
                   THEN RpcRaise("CheckSuccess", rpc.exception)
                   ELSE RpcReturn("CheckSuccess")
  /\ UNCHANGED <<ctor_vars, pol, store_vars, stats_vars, rpc>>

\* The constructor, from its first statement.
InitCtor ==
  /\ StatsIdle
  /\ RpcIdle
  /\ CtorStart
  /\ pol = NoPol
  /\ StoreIdle

NextCtor ==
  \/ DatastoreProxy_init_start
  \/ \E outcome \in ClusterOutcomes : DatastoreProxy_init_cluster(outcome)
  \/ \E outcome \in ConnectOutcomes : DatastoreProxy_init_connect(outcome)
  \/ DatastoreProxy_init_sleep

SpecCtor == InitCtor /\ [][NextCtor]_vars

\* The retry policy on its own: any handler, consistency level, retry_num.
InitPolicy ==
  /\ StatsIdle
  /\ RpcIdle
  /\ CtorStart
  /\ StoreIdle
  /\ \E h \in PolicyHandlers, c \in ConsistencyLevels, n \in 0..MaxRetryNum :
       pol = [handler |-> h, consistency |-> c, retry_num |-> n,
              decision |-> None, out_consistency |-> None]

NextPolicy == PolicyDecide

SpecPolicy == InitPolicy /\ [][NextPolicy]_vars


(***************************************************************************)
(* The operations on a constructed engine and a cluster that answers.      *)
(***************************************************************************)
TableArgs == {Obj("str", t) : t \in Tables}
KeyLists == {<<KeyA>>, <<KeyA, KeyB>>}
ColLists == {<<"c1">>, <<"c1", "c2">>}
KeyListArgs == {Obj("list", ks) : ks \in KeyLists}
ColListArgs == {Obj("list", cs) : cs \in ColLists}

\* cell_values dictionaries for the declared keys ks and columns cs: every
\* declared (key, column) present, column c holding the value v[c]; one
\* without the last column of the last key; and the empty dictionary.
ValueChoices ==
  {[c \in Columns |-> <<>>], [c \in Columns |-> <<120>>],
   ("c1" :> <<120>>) @@ ("c2" :> <<>>)}

FullValues(ks, cs, v) ==
  [k \in Range(ks) |-> [c \in Range(cs) |-> Str(v[c])]]

LackingValues(ks, cs, v) ==
  [k \in Range(ks) |->
     [c \in (IF k = ks[Len(ks)] THEN Range(cs) \ {cs[Len(cs)]} ELSE Range(cs))
        |-> Str(v[c])]]

CellValueArgs(ks, cs) ==
  {Obj("dict", d) :
     d \in {FullValues(ks, cs, v) : v \in ValueChoices}
           \cup {LackingValues(ks, cs, [c \in Columns |-> <<120>>])}
           \cup {<<>>}}

\* The mutations of the model and the lists made of them.
Mutations ==
  {Mutation("T1", PUT, KeyA, ("c1" :> Str(<<120>>))),
   Mutation("T1", PUT, KeyA, ("c1" :> Str(<<>>)) @@ ("c2" :> Str(<<120>>))),
   Mutation("T2", PUT, KeyB, ("c1" :> Str(<<120>>))),
   Mutation("T1", DELETE, KeyA, <<>>),
   Mutation("T2", DELETE, KeyB, <<>>)}

MutationLists == UNION {[1..n -> Mutations] : n \in 0..MaxMuts}
MutationArgs == {Obj("list", ms) : ms \in MutationLists}

Init ==
  /\ StatsIdle
  /\ RpcIdle
  /\ Constructed
  /\ pol = NoPol
  /\ StoreIdle

Next ==
  \/ /\ nops < MaxOps
     /\ \/ \E t \in TableArgs, ks \in KeyListArgs, cs \in ColListArgs :
             batch_get_entity(t, ks, cs)
        \/ \E t \in TableArgs, ks \in KeyListArgs, cs \in ColListArgs :
             \E vs \in CellValueArgs(ks.val, cs.val) :
               batch_put_entity(t, ks, cs, vs, NoneObj)
        \/ \E ms \in MutationArgs : batch_mutate(ms)
  \/ batch_get_entity_execute("ok")
  \/ batch_put_entity_prepare("ok")
  \/ batch_put_entity_execute("ok", TRUE)
  \/ batch_mutate_prepare("ok")
  \/ \E outcome \in {"ok", "Unavailable"}, applied \in BOOLEAN :
       batch_mutate_execute(outcome, applied)

Spec == Init /\ [][Next]_vars

(***************************************************************************)
(* The operations on a cluster that may fail, on one cell.                 *)
(***************************************************************************)
PrepareOutcomes == {"ok", "OperationTimedOut"}
OneTable == Obj("str", "T1")
OneKey == Obj("list", <<KeyA>>)
OneColumn == Obj("list", <<"c1">>)
OneValue == Obj("dict", FullValues(<<KeyA>>, <<"c1">>, [c \in Columns |-> <<120>>]))
FewMutations ==
  {Mutation("T1", PUT, KeyA, ("c1" :> Str(<<>>))),
   Mutation("T2", DELETE, KeyB, <<>>)}
FewMutationArgs ==
  {Obj("list", ms) : ms \in UNION {[1..n -> FewMutations] : n \in 0..MaxMuts}}

NextFaults ==
  \/ /\ nops < MaxOps
     /\ \/ batch_get_entity(OneTable, OneKey, OneColumn)
        \/ batch_put_entity(OneTable, OneKey, OneColumn, OneValue, NoneObj)
        \/ \E ms \in FewMutationArgs : batch_mutate(ms)
  \/ \E outcome \in Outcomes : batch_get_entity_execute(outcome)
  \/ \E outcome \in PrepareOutcomes : batch_put_entity_prepare(outcome)
  \/ \E outcome \in Outcomes, applied \in BOOLEAN :
       batch_put_entity_execute(outcome, applied)
  \/ \E outcome \in PrepareOutcomes : batch_mutate_prepare(outcome)
  \/ \E outcome \in Outcomes, applied \in BOOLEAN :
       batch_mutate_execute(outcome, applied)

SpecFaults == Init /\ [][NextFaults]_vars

(***************************************************************************)
(* The operations that check the types of their arguments, called with     *)
(* arguments of several types on a cluster that answers.                   *)
(***************************************************************************)
TableTyped == {Obj("str", "T1"), Obj("unicode", "T1"), NoneObj}
KeysTyped == {Obj("list", <<KeyA>>), Obj("tuple", <<KeyA>>), NoneObj}
ColumnsTyped == {Obj("list", <<"c1">>), Obj("tuple", <<"c1">>), NoneObj}
\* column_names of batch_delete, its default () among them.
UnusedColumnsTyped == {Obj("list", <<"c1">>), Obj("tuple", <<>>), NoneObj}
ValuesTyped ==
  {Obj("dict", FullValues(<<KeyA>>, <<"c1">>, [c \in Columns |-> <<120>>])),
   Obj("list", <<>>), NoneObj}
StartKeyTyped == {Str(KeyB), Obj("unicode", KeyB)}
EndKeyTyped == {Str(KeyA), Obj("unicode", KeyA)}
LimitTyped ==
  {Obj("int", 1), Obj("long", 2), Obj("bool", TRUE), NoneObj,
   Obj("float", 1), Obj("str", <<49>>)}
OffsetTyped ==
  {Obj("int", 0), Obj("long", 1), Obj("bool", FALSE), NoneObj,
   Obj("str", <<48>>)}
MetaKeyTyped == {Str(<<118>>), Obj("unicode", <<118>>), Obj("int", 1)}
MetaValueTyped == {Str(<<120>>), Obj("unicode", <<120>>), NoneObj}

NextTypes ==
  \/ /\ nops < MaxTypedOps
     /\ \/ \E t \in TableTyped, ks \in KeysTyped, cs \in ColumnsTyped :
             batch_get_entity(t, ks, cs)
        \/ \E t \in TableTyped, ks \in KeysTyped, cs \in ColumnsTyped,
              vs \in ValuesTyped :
             batch_put_entity(t, ks, cs, vs, NoneObj)
        \/ \E t \in TableTyped, ks \in KeysTyped, cs \in UnusedColumnsTyped :
             batch_delete(t, ks, cs)
        \/ \E t \in TableTyped, cs \in ColumnsTyped : create_table(t, cs)
        \/ \E t \in TableTyped : delete_table(t)
        \/ \E t \in TableTyped, cs \in ColumnsTyped, sk \in StartKeyTyped,
              ek \in EndKeyTyped, limit \in LimitTyped, offset \in OffsetTyped,
              keys_only \in BOOLEAN :
             range_query(t, cs, sk, ek, limit, offset, TRUE, TRUE, keys_only)
        \/ \E k \in MetaKeyTyped, v \in MetaValueTyped : set_metadata(k, v)
  \/ batch_get_entity_execute("ok")
  \/ batch_put_entity_prepare("ok")
  \/ batch_put_entity_execute("ok", TRUE)
  \/ batch_delete_execute("ok", TRUE)
  \/ create_table_execute("ok", TRUE)
  \/ delete_table_execute("ok", TRUE)
  \/ range_query_execute("ok")
  \/ set_metadata_execute("ok", TRUE)
  \/ set_metadata_create("ok", TRUE)
  \/ set_metadata_again("ok", TRUE)

SpecTypes == Init /\ [][NextTypes]_vars


(***************************************************************************)
(* Deletes and reads of rows on a table that holds data.                   *)
(***************************************************************************)
\* The value the stores of the model hold in a cell.
CellValue(cell) == IF cell[2] = "c1" THEN <<120>> ELSE <<>>

\* The stores in which table T1 holds the cells S and T2 is empty; each is
\* the outcome of batch_put_entity calls.
StoreOf(S) ==
  [t \in Tables |-> IF t = "T1" THEN [cell \in S |-> CellValue(cell)] ELSE <<>>]
Stores == {StoreOf(S) : S \in SUBSET Cells}

InitRows ==
  /\ StatsIdle
  /\ RpcIdle
  /\ Constructed
  /\ pol = NoPol
  /\ db \in Stores
  /\ call = NoCall
  /\ nops = 0
  /\ hist = NoCall
  /\ parked = NoCall
  /\ clock = NoClock

DeleteKeyArgs ==
  {Obj("list", ks) : ks \in {<<KeyA>>, <<KeyC>>, <<KeyA, KeyB>>}}
ReadKeyArgs ==
  {Obj("list", ks) : ks \in {<<KeyA>>, <<KeyB>>, <<KeyA, KeyB>>}}
ReadColumnArgs ==
  {Obj("list", cs) : cs \in {<<"c1">>, <<"c2">>, <<"c1", "c2">>}}

NextRows ==
  \/ /\ nops < MaxOps
     /\ \/ \E ks \in DeleteKeyArgs, cs \in UnusedColumnsTyped :
             batch_delete(OneTable, ks, cs)
        \/ \E ks \in ReadKeyArgs, cs \in ReadColumnArgs :
             batch_get_entity(OneTable, ks, cs)
  \/ batch_delete_execute("ok", TRUE)
  \/ batch_get_entity_execute("ok")

SpecRows == InitRows /\ [][NextRows]_vars

(***************************************************************************)
(* The metadata operations on a fresh deployment: the cluster holds no     *)
(* metadata table.                                                         *)
(***************************************************************************)
VersionOne == Str(<<49, 46, 48>>)
MetaWrites ==
  {<<Str(VERSION_INFO_KEY), VersionOne>>,
   <<Str(VERSION_INFO_KEY), Str(<<50, 46, 48>>)>>,
   <<Str(VERSION_INFO_KEY), Str(<<120>>)>>,
   <<Str(PRIMED_KEY), Str(<<120>>)>>}
MetaReads == {Str(VERSION_INFO_KEY), Str(PRIMED_KEY)}

NextMeta ==
  \/ /\ nops < MaxMetaOps
     /\ \/ \E w \in MetaWrites : set_metadata(w[1], w[2])
        \/ \E k \in MetaReads : get_metadata(k)
        \/ valid_data_version
  \/ set_metadata_execute("ok", TRUE)
  \/ set_metadata_create("ok", TRUE)
  \/ set_metadata_again("ok", TRUE)
  \/ get_metadata_execute("ok")
  \/ valid_data_version_execute("ok")

SpecMeta == Init /\ [][NextMeta]_vars

\* The same on a cluster that may fail.
NextMetaFaults ==
  \/ /\ nops < MaxMetaOps
     /\ \/ \E w \in MetaWrites : set_metadata(w[1], w[2])
        \/ \E k \in MetaReads : get_metadata(k)
        \/ valid_data_version
  \/ \E outcome \in Outcomes, applied \in BOOLEAN :
       set_metadata_execute(outcome, applied)
  \/ \E outcome \in Outcomes, applied \in BOOLEAN :
       set_metadata_create(outcome, applied)
  \/ \E outcome \in Outcomes, applied \in BOOLEAN :
       set_metadata_again(outcome, applied)
  \/ \E outcome \in Outcomes : get_metadata_execute(outcome)
  \/ \E outcome \in Outcomes : valid_data_version_execute(outcome)

SpecMetaFaults == Init /\ [][NextMetaFaults]_vars

(***************************************************************************)
(* One range_query on a table that holds data.                             *)
(***************************************************************************)
MaxLimit == 3       \* largest limit of a range_query
MaxOffset == 2      \* largest offset of a range_query

RangeColumnArgs == {Obj("list", cs) : cs \in {<<"c1">>, <<"c1", "c2">>}}
RangeKeyArgs == {Str(k) : k \in Keys}
RangeLimitArgs == {Obj("int", n) : n \in 1..MaxLimit} \cup {NoneObj}
RangeOffsetArgs == {Obj("int", n) : n \in 0..MaxOffset}

NextRange ==
  \/ /\ call.pc = "idle"
     /\ \E cs \in RangeColumnArgs, sk \in RangeKeyArgs, ek \in RangeKeyArgs,
           limit \in RangeLimitArgs, offset \in RangeOffsetArgs,
           start_inclusive \in BOOLEAN, end_inclusive \in BOOLEAN,
           keys_only \in BOOLEAN :
          range_query(OneTable, cs, sk, ek, limit, offset, start_inclusive,
                      end_inclusive, keys_only)
  \/ range_query_execute("ok")

SpecRange == InitRows /\ [][NextRange]_vars

(***************************************************************************)
(* Creating and dropping tables on a cluster that holds data in T1.        *)
(***************************************************************************)
MaxTableOps == 3    \* number of create_table and delete_table calls

NextTables ==
  \/ /\ nops < MaxTableOps
     /\ \/ \E t \in TableArgs : create_table(t, OneColumn)
        \/ \E t \in TableArgs : delete_table(t)
  \/ create_table_execute("ok", TRUE)
  \/ delete_table_execute("ok", TRUE)

SpecTables == InitRows /\ [][NextTables]_vars

(***************************************************************************)
(* Two callers of one instance on a cluster that may fail: the calls of    *)
(* the two interleave at their interactions with the cluster.              *)
(***************************************************************************)
MaxLocalOps == 3    \* number of calls the two callers make

\* The other caller going on with a batch that is an attribute of the
\* instance: it finds in it what the current caller has added.
SwitchSharedBatch ==
  /\ ctor_pc = "returned"
  /\ call' = [parked EXCEPT !.batch = call.batch]
  /\ parked' = call
  /\ UNCHANGED <<ctor_vars, pol, stats_vars, rpc_vars, db, nops, hist, clock>>

\* The other caller goes on: its call becomes the current one.
Switch ==
  /\ ctor_pc = "returned"
  /\ call' = parked
  /\ parked' = call
  /\ UNCHANGED <<ctor_vars, pol, stats_vars, rpc_vars, db, nops, hist, clock>>

\* The cluster answers every request from the failure of a call on, for as
\* long as the failed call is the last one of its caller.
Responding == parked.pc = "raised"
LocalOutcomes == IF Responding THEN {"ok"} ELSE Outcomes
LocalTables == IF Responding THEN {OneTable} ELSE {OneTable, NoneObj}
OneMutationList == Obj("list", <<Mutation("T1", PUT, KeyA, ("c1" :> Str(<<120>>)))>>)

NextLocal ==
  \/ /\ nops < MaxLocalOps
     /\ \/ \E t \in LocalTables : batch_get_entity(t, OneKey, OneColumn)
        \/ batch_mutate(OneMutationList)
  \/ \E outcome \in LocalOutcomes : batch_get_entity_execute(outcome)
  \/ batch_mutate_prepare("ok")
  \/ \E outcome \in LocalOutcomes, applied \in BOOLEAN :
       batch_mutate_execute(outcome, applied)
  \/ Switch

SpecLocal == Init /\ [][NextLocal]_vars

(***************************************************************************)
(* One batch_put_entity on a table that holds data; cell_values may hold   *)
(* more than the declared keys and columns, or less.                       *)
(***************************************************************************)
AllKeys == <<KeyA, KeyB>>
AllColumns == <<"c1", "c2">>
PutValueArgs(ks, cs) ==
  CellValueArgs(ks, cs)
    \cup {Obj("dict", FullValues(AllKeys, AllColumns, v)) : v \in ValueChoices}

NextPut ==
  \/ /\ call.pc = "idle"
     /\ \E ks \in KeyListArgs, cs \in ColListArgs :
          \E vs \in PutValueArgs(ks.val, cs.val) :
            batch_put_entity(OneTable, ks, cs, vs, NoneObj)
  \/ batch_put_entity_prepare("ok")
  \/ batch_put_entity_execute("ok", TRUE)

SpecPut == InitRows /\ [][NextPut]_vars

(***************************************************************************)
(* Writes with a TTL and reads while time passes.                          *)
(***************************************************************************)
MaxTime == 4        \* seconds the clock of the cluster runs
MaxTtl == 2         \* largest ttl of a batch_put_entity
MaxTtlOps == 3      \* number of calls made while the clock runs

\* One second passes; the cells whose time has come are gone.
Tick ==
  /\ clock.now < MaxTime
  /\ LET now == clock.now + 1
         expired == {x \in DOMAIN clock.expires : clock.expires[x] <= now}
     IN /\ clock' = [now |-> now,
                     expires |-> [x \in DOMAIN clock.expires \ expired |->
                                    clock.expires[x]]]
        /\ db' = [t \in DOMAIN db |->
                    [cell \in {c \in DOMAIN db[t] : <<t, c>> \notin expired} |->
                       db[t][cell]]]
  /\ UNCHANGED <<ctor_vars, pol, stats_vars, rpc_vars, call, nops, hist, parked>>

TtlArgs == {Obj("int", n) : n \in 1..MaxTtl} \cup {NoneObj}

NextTtl ==
  \/ /\ nops < MaxTtlOps
     /\ \/ \E cs \in ColListArgs, ttl \in TtlArgs :
             batch_put_entity(OneTable, OneKey, cs,
                              Obj("dict", FullValues(<<KeyA>>, cs.val,
                                                     [c \in Columns |-> <<120>>])),
                              ttl)
        \/ \E cs \in ColListArgs : batch_get_entity(OneTable, OneKey, cs)
  \/ batch_put_entity_prepare("ok")
  \/ batch_put_entity_execute("ok", TRUE)
  \/ batch_get_entity_execute("ok")
  \/ Tick

SpecTtl == Init /\ [][NextTtl]_vars

(***************************************************************************)
(* One call of any operation on a table that holds data, on a cluster      *)
(* whose answer to a request may time out after the request took effect.   *)
(***************************************************************************)
RetriedOutcomes == {"ok", "Timeout"}
FewTtlArgs == {NoneObj, Obj("int", 1)}
EmptyValues == [c \in Columns |-> <<>>]

NextRetried ==
  \/ /\ call.pc = "idle"
     /\ \/ \E ks \in ReadKeyArgs, cs \in ReadColumnArgs :
             batch_get_entity(OneTable, ks, cs)
        \/ \E ks \in KeyListArgs, cs \in ColListArgs, ttl \in FewTtlArgs :
             batch_put_entity(OneTable, ks, cs,
                              Obj("dict", FullValues(ks.val, cs.val, EmptyValues)),
                              ttl)
        \/ \E ks \in DeleteKeyArgs : batch_delete(OneTable, ks, Obj("tuple", <<>>))
        \/ \E t \in TableArgs : delete_table(t)
        \/ \E t \in TableArgs : create_table(t, OneColumn)
        \/ \E cs \in RangeColumnArgs, sk \in RangeKeyArgs, ek \in RangeKeyArgs :
             range_query(OneTable, cs, sk, ek, NoneObj, Obj("int", 0), TRUE,
                         TRUE, FALSE)
        \/ \E ms \in MutationArgs : batch_mutate(ms)
  \/ \E outcome \in RetriedOutcomes : batch_get_entity_execute(outcome)
  \/ batch_put_entity_prepare("ok")
  \/ \E outcome \in RetriedOutcomes, applied \in BOOLEAN :
       batch_put_entity_execute(outcome, applied)
  \/ \E outcome \in RetriedOutcomes, applied \in BOOLEAN :
       batch_delete_execute(outcome, applied)
  \/ \E outcome \in RetriedOutcomes, applied \in BOOLEAN :
       delete_table_execute(outcome, applied)
  \/ \E outcome \in RetriedOutcomes, applied \in BOOLEAN :
       create_table_execute(outcome, applied)
  \/ \E outcome \in RetriedOutcomes : range_query_execute(outcome)
  \/ batch_mutate_prepare("ok")
  \/ \E outcome \in RetriedOutcomes, applied \in BOOLEAN :
       batch_mutate_execute(outcome, applied)

SpecRetried == InitRows /\ [][NextRetried]_vars

(***************************************************************************)
(* Properties.                                                             *)
(***************************************************************************)
\* What batch_get_entity(table, [key], cols) returns on the store d.
Reads(d, table, key, cols) ==
  GetResult(<<key>>,
            SelectIn(d, Statement("SELECT_IN", table, {key}, cols, <<>>,
                                  None, None)))

\* A batch_get_entity(T, [k], [c]) has returned, and the write before it was
\* a batch_put_entity(T, [k], [c], {k: {c: value}}) that returned.
RoundTripCase ==
  /\ call.op = "batch_get_entity"
  /\ call.pc = "returned"
  /\ hist.op = "batch_put_entity"
  /\ Len(hist.keys) = 1
  /\ Len(hist.cols) = 1
  /\ DOMAIN hist.vals = {hist.keys[1]}
  /\ DOMAIN hist.vals[hist.keys[1]] = {hist.cols[1]}
  /\ call.table = hist.table
  /\ call.keys = hist.keys
  /\ call.cols = hist.cols

\* C1: a batch_put_entity(T, [k], [c], {k: {c: value}}) followed, with no
\* write in between, by batch_get_entity(T, [k], [c]) returns exactly
\* {k: {c: value}}, the empty value included.
C1_RoundTrip ==
  RoundTripCase =>
    call.result =
      (hist.keys[1] :> (hist.cols[1] :> hist.vals[hist.keys[1]][hist.cols[1]]))

\* C1 witness: the round trip of an empty byte string.
C1_Witness ==
  /\ RoundTripCase
  /\ hist.vals[hist.keys[1]][hist.cols[1]] = Str(<<>>)
  /\ call.result = (hist.keys[1] :> (hist.cols[1] :> Str(<<>>)))

\* The cells a mutation list PUTs, the rows it DELETEs and the statements
\* that follow from it, read off the mutations themselves.
PutCells(muts) ==
  UNION {{<<muts[i].table, muts[i].key, c, muts[i].values[c]>> :
            c \in DOMAIN muts[i].values} :
         i \in {j \in 1..Len(muts) : muts[j].operation = PUT}}

DeletedRows(muts) ==
  {<<muts[i].table, muts[i].key>> :
     i \in {j \in 1..Len(muts) : muts[j].operation = DELETE}}

ExpectedItems(muts) ==
  {Bound("INSERT", cell[1], cell[2], cell[3], cell[4].val) :
     cell \in PutCells(muts)}
  \cup {Bound("DELETE", row[1], row[2], None, <<>>) : row \in DeletedRows(muts)}

RECURSIVE ExpectedCount(_, _)
ExpectedCount(muts, i) ==
  IF i > Len(muts) THEN 0
  ELSE (CASE muts[i].operation = PUT -> Cardinality(DOMAIN muts[i].values)
          [] muts[i].operation = DELETE -> 1
          [] OTHER -> 0)
       + ExpectedCount(muts, i + 1)

\* batch_get_entity returns the PUT cell; the DELETEd row reads as empty.
PutVisible(d, cell) ==
  LET r == Reads(d, cell[1], cell[2], {cell[3]})
  IN /\ cell[3] \in DOMAIN r[cell[2]]
     /\ r[cell[2]][cell[3]] = cell[4]

RowEmpty(d, row) == Reads(d, row[1], row[2], Columns) = (row[2] :> <<>>)

AllVisible(d, muts) ==
  /\ \A cell \in PutCells(muts) : PutVisible(d, cell)
  /\ \A row \in DeletedRows(muts) : RowEmpty(d, row)

\* The list PUTs into a row it also DELETEs, or PUTs two values into one cell.
Conflicting(muts) ==
  \/ \E cell \in PutCells(muts) : <<cell[1], cell[2]>> \in DeletedRows(muts)
  \/ \E x, y \in PutCells(muts) :
       /\ <<x[1], x[2], x[3]>> = <<y[1], y[2], y[3]>>
       /\ x[4] # y[4]

\* The statements of the list go to the cluster in one execution of one batch.
OneBatch ==
  /\ call.executes <= 1
  /\ call.executes = 1 =>
       /\ call.stmt.kind = "BATCH"
       /\ Range(call.stmt.items) = ExpectedItems(call.muts)
       /\ Len(call.stmt.items) = ExpectedCount(call.muts, 1)
  /\ call.pc = "returned" => call.executes = 1

\* C2 as stated: one batch execution; after a successful return every PUT
\* cell is read back and every DELETEd row reads as empty; the store never
\* shows a proper part of a batch.
C2_AsStated ==
  call.op = "batch_mutate" =>
    /\ OneBatch
    /\ call.pc = "returned" => AllVisible(db, call.muts)
    /\ db = call.pre \/ AllVisible(db, call.muts)

\* C2 amended: the same for the lists that do not PUT into a row they also
\* DELETE and do not PUT two different values into one cell.
C2_Atomic ==
  call.op = "batch_mutate" =>
    /\ OneBatch
    /\ ~Conflicting(call.muts) =>
         /\ call.pc = "returned" => AllVisible(db, call.muts)
         /\ db = call.pre \/ AllVisible(db, call.muts)

\* C2 witness: a PUT into one table and a DELETE of a stored row of another
\* table returned, and both show.
C2_Witness ==
  /\ call.op = "batch_mutate"
  /\ call.pc = "returned"
  /\ ~Conflicting(call.muts)
  /\ \E i, j \in 1..Len(call.muts) :
       /\ call.muts[i].operation = PUT
       /\ call.muts[j].operation = DELETE
       /\ call.muts[i].table # call.muts[j].table
       /\ <<call.muts[j].key, "c1">> \in DOMAIN call.pre[call.muts[j].table]
  /\ db # call.pre
  /\ AllVisible(db, call.muts)

ClusterFailures ==
  {"Unavailable", "ReadTimeout", "WriteTimeout", "CoordinationFailure",
   "OperationTimedOut"}

\* C3: the batch of batch_mutate carries no retry policy and is attempted at
\* most once; when its one attempt fails with Unavailable, a timeout,
\* CoordinationFailure or OperationTimedOut, batch_mutate raises
\* AppScaleDBConnectionError.
C3_NeverRetried ==
  call.op = "batch_mutate" =>
    /\ call.attempts <= 1
    /\ call.executes <= 1
    /\ call.executes = 1 => call.stmt.policy = None
    /\ (call.pc = "raised" /\ call.cause \in ClusterFailures) =>
         /\ call.err = "AppScaleDBConnectionError"
         /\ call.attempts = 1

\* C3 witness: a batch that timed out once left batch_mutate as
\* AppScaleDBConnectionError.
C3_Witness ==
  /\ call.op = "batch_mutate"
  /\ call.pc = "raised"
  /\ call.cause = "WriteTimeout"
  /\ call.err = "AppScaleDBConnectionError"
  /\ call.attempts = 1

\* batch_put_entity was called with well-typed arguments and a cell_values
\* that lacks a declared (row key, column) pair.
LacksEntry ==
  /\ call.op = "batch_put_entity"
  /\ call.argtypes = <<"str", "list", "list", "dict">>
  /\ \E i \in 1..Len(call.keys), j \in 1..Len(call.cols) :
       Missing(call.vals, <<call.keys[i], call.cols[j]>>)

\* C4 as stated: such a call fails with the TypeError the other argument
\* errors are reported with, and makes no call of the session, neither a
\* prepare nor an execute.
C4_AsStated ==
  LacksEntry =>
    /\ call.prepares = 0
    /\ call.executes = 0
    /\ call.pc # "returned"
    /\ call.pc = "raised" => call.err = "TypeError"

\* The types of Python objects the model draws arguments from.
TypeTags ==
  {"str", "unicode", "list", "tuple", "dict", "int", "long", "bool", "float",
   "NoneType"}
IntegerTypes == {"int", "long", "bool"}

\* The operations that check the types of their arguments.
TypeCheckedOps ==
  {"batch_get_entity", "batch_put_entity", "batch_delete", "create_table",
   "delete_table", "range_query", "set_metadata"}

\* Per operation, the types each positional argument may have by the words
\* of the claim: a table name is a string, keys and columns are lists,
\* cell_values is a dict, limit and offset are integers, a metadata key and
\* value are strings.
StatedTypes(op) ==
  CASE op = "batch_get_entity" -> <<{"str"}, {"list"}, {"list"}>>
    [] op = "batch_put_entity" -> <<{"str"}, {"list"}, {"list"}, {"dict"}>>
    [] op = "batch_delete" -> <<{"str"}, {"list"}, {"list"}>>
    [] op = "create_table" -> <<{"str"}, {"list"}>>
    [] op = "delete_table" -> <<{"str"}>>
    [] op = "range_query" ->
         <<{"str"}, {"list"}, TypeTags, TypeTags, IntegerTypes, IntegerTypes>>
    [] op = "set_metadata" -> <<{"str"}, {"str"}>>

\* The same with None allowed as a limit, the start and end key of a range
\* being strings, and nothing asked of the unused column_names of
\* batch_delete.
DeclaredTypes(op) ==
  CASE op = "batch_delete" -> <<{"str"}, {"list"}, TypeTags>>
    [] op = "range_query" ->
         <<{"str"}, {"list"}, {"str"}, {"str"},
           IntegerTypes \cup {"NoneType"}, IntegerTypes>>
    [] OTHER -> StatedTypes(op)

\* The current call is one of a type-checked operation and has an argument
\* whose type is not among those that types allows at its position.
WronglyTyped(types) ==
  /\ call.op \in TypeCheckedOps
  /\ \E i \in 1..Len(call.argtypes) : call.argtypes[i] \notin types[i]

\* The call ended in TypeError and the session was never called.
TypeErrorBeforeSession ==
  /\ call.pc = "raised"
  /\ call.err = "TypeError"
  /\ call.err # "AppScaleDBConnectionError"
  /\ call.prepares = 0
  /\ call.executes = 0
  /\ call.attempts = 0
  /\ call.retry_num = 0

\* C5 as stated: a call of one of the seven operations with a table name
\* that is not a string, keys or columns that are not a list, cell_values
\* that is not a dict, a limit or offset that is not an integer, or a
\* metadata key or value that is not a string raises TypeError before any
\* session call, is never retried and never ends in
\* AppScaleDBConnectionError.
C5_AsStated ==
  (call.op \in TypeCheckedOps /\ WronglyTyped(StatedTypes(call.op)))
    => TypeErrorBeforeSession

\* C5: the same for the arguments the operations declare a type for: a limit
\* may also be None, and the unused column_names of batch_delete may be of
\* any type.
C5_TypeErrors ==
  (call.op \in TypeCheckedOps /\ WronglyTyped(DeclaredTypes(call.op)))
    => TypeErrorBeforeSession

\* A range_query whose only wrongly typed argument is its offset has raised
\* TypeError.
C5_Witness ==
  /\ call.op = "range_query"
  /\ call.argtypes = <<"str", "list", "str", "str", "int", "str">>
  /\ call.pc = "raised"
  /\ call.err = "TypeError"

\* C6: a handler of the policy answers RETRY, at the consistency level it
\* was given, for every retry_num below 5 and RETHROW for every retry_num
\* from 5 on, for read and write timeouts alike.
C6_Decision ==
  pol.decision # None =>
    /\ pol.handler \in {"on_read_timeout", "on_write_timeout"}
    /\ pol.retry_num < 5 =>
         /\ pol.decision = RETRY
         /\ pol.out_consistency = pol.consistency
    /\ pol.retry_num >= 5 => pol.decision = RETHROW

\* C6 witness: the read-timeout handler decided RETRY at retry_num 4.
C6_Witness ==
  /\ pol.handler = "on_read_timeout"
  /\ pol.retry_num = 4
  /\ pol.decision = RETRY

\* C7: a statement under IdempotentRetryPolicy is attempted at most 6 times;
\* a timeout leaves the operation, as AppScaleDBConnectionError, only at the
\* 6th attempt, after 5 retries; while fewer attempts were made and all
\* timed out the operation goes on; an operation that returned raised nothing.
C7_SixAttempts ==
  (call.stmt.policy = "IdempotentRetryPolicy" /\ call.executes >= 1) =>
    /\ call.attempts <= 6
    /\ (call.pc = "raised" /\ call.cause \in {"ReadTimeout", "WriteTimeout"}) =>
         /\ call.attempts = 6
         /\ call.retry_num = 5
         /\ call.err = "AppScaleDBConnectionError"
    /\ call.pc = "execute" => (call.attempts = call.retry_num /\ call.attempts <= 5)
    /\ call.pc = "returned" =>
         /\ call.err = None
         /\ call.cause = None
         /\ call.attempts = call.retry_num + 1

\* C7 witness: a batch_get_entity whose six attempts all timed out.
C7_Witness ==
  /\ call.op = "batch_get_entity"
  /\ call.pc = "raised"
  /\ call.cause = "ReadTimeout"
  /\ call.attempts = 6
  /\ call.err = "AppScaleDBConnectionError"

\* __init__ was left by a NoHostAvailable: every attempt failed with it.
BudgetExhausted ==
  /\ ctor_pc = "raised"
  /\ ctor_raised.kind = "NoHostAvailable"

\* C8 as stated: no more than 20 connection attempts are made, and when all
\* fail with NoHostAvailable the constructor raises the last one after the
\* 20th.
C8_AsStated ==
  /\ connect_attempts <= 20
  /\ BudgetExhausted =>
       /\ connect_attempts = 20
       /\ ctor_raised.at = connect_attempts

\* C8 amended: no more than 21 connection attempts are made (the first one
\* and 20 retries), and when all fail with NoHostAvailable the constructor
\* raises the last one after the 21st.
C8_Budget ==
  /\ connect_attempts <= 21
  /\ BudgetExhausted =>
       /\ connect_attempts = 21
       /\ ctor_raised.at = connect_attempts

\* C8 witness: the constructor gave up.
C8_Witness == BudgetExhausted /\ connect_attempts = 21

\* C9: when __init__ is left by an exception, neither the default consistency
\* level nor the retry policy is set; NoHostAvailable leaves it only with
\* the budget used up, any other exception at once; and whenever one of the
\* two is set the constructor has returned.
C9_NoHalfInit ==
  /\ ctor_pc = "raised" =>
       /\ ctor_raised.kind # None
       /\ default_consistency_level = None
       /\ retry_policy = None
       /\ ctor_raised.kind = "NoHostAvailable" => remaining_retries < 0
       /\ ctor_raised.kind # "NoHostAvailable" => ctor_raised.at = connect_attempts
  /\ (default_consistency_level # None \/ retry_policy # None) =>
       ctor_pc = "returned"

\* C9 witness: an exception other than NoHostAvailable left the constructor
\* after some retries.
C9_Witness ==
  /\ ctor_pc = "raised"
  /\ ctor_raised.kind = "OtherError"
  /\ slept > 0

\* C10: once a connection attempt succeeded the constructor has returned,
\* with QUORUM as the default consistency level and the idempotent retry
\* policy installed, and the attempts made are the failed ones and the one
\* that succeeded.
C10_Success ==
  /\ session # None => ctor_pc = "returned"
  /\ ctor_pc = "returned" =>
       /\ session = "Session"
       /\ default_consistency_level = QUORUM
       /\ retry_policy = "IdempotentRetryPolicy"
       /\ ctor_raised = NoError
       /\ connect_attempts = (20 - remaining_retries) + 1
       /\ connect_attempts <= 21

\* C10 witness: the cluster became reachable at the last attempt of the budget.
C10_Witness ==
  /\ ctor_pc = "returned"
  /\ connect_attempts = 21
  /\ default_consistency_level = QUORUM

(***************************************************************************)
(* Error wrapping.                                                         *)
(***************************************************************************)
\* The exceptions of the cluster that are transient failures.
Transient == Caught

\* C11 as stated: a transient cluster failure met at any interaction with
\* the cluster during an operation, the preparation of a statement
\* included, leaves the operation as AppScaleDBConnectionError and as no
\* other exception: no call ends in a raw Unavailable, Timeout,
\* CoordinationFailure or OperationTimedOut.
C11_AsStated ==
  call.pc = "raised" => call.err \notin Transient

(***************************************************************************)
(* batch_delete                                                            *)
(***************************************************************************)
ColumnChoices == {<<"c1">>, <<"c2">>, <<"c1", "c2">>}

\* The last write that returned is a batch_delete.
AfterDelete ==
  /\ hist.op = "batch_delete"
  /\ hist.pc = "returned"

\* C12: after batch_delete(T, keys, column_names) returned, whatever
\* column_names was, no column of a row whose key is in keys is left: the
\* store answers a read of any columns of such a row with no cell, and a
\* batch_get_entity(T, ks, any_columns) that returns maps every k of ks
\* that is in keys to the empty dictionary.
C12_RowsGone ==
  AfterDelete =>
    /\ \A k \in Range(hist.keys), cols \in ColumnChoices :
         Reads(db, hist.table, k, Range(cols)) = (k :> <<>>)
    /\ (call.op = "batch_get_entity" /\ call.pc = "returned"
        /\ call.table = hist.table) =>
         \A k \in Range(call.keys) \cap Range(hist.keys) :
           call.result[k] = <<>>

\* A batch_get_entity(T, [k], columns) has returned {k: {}} after a
\* batch_delete(T, keys, ()) of a row k that held both columns.
C12_Witness ==
  /\ AfterDelete
  /\ hist.argtypes[3] = "tuple"
  /\ call.op = "batch_get_entity"
  /\ call.pc = "returned"
  /\ call.table = hist.table
  /\ call.keys = <<KeyA>>
  /\ KeyA \in Range(hist.keys)
  /\ {<<KeyA, "c1">>, <<KeyA, "c2">>} \subseteq DOMAIN hist.pre[hist.table]
  /\ call.result = (KeyA :> <<>>)

(***************************************************************************)
(* Metadata.                                                               *)
(***************************************************************************)
HasMetadataTable(d) == DATASTORE_METADATA_TABLE \in DOMAIN d

\* The store holds value under the metadata key.
HoldsMetadata(d, key, value) ==
  /\ HasMetadataTable(d)
  /\ MetadataCell(Str(key)) \in DOMAIN d[DATASTORE_METADATA_TABLE]
  /\ d[DATASTORE_METADATA_TABLE][MetadataCell(Str(key))] = value

\* The last write that returned is a set_metadata.
AfterSetMetadata ==
  /\ hist.op = "set_metadata"
  /\ hist.pc = "returned"

\* C13: while the cluster holds no metadata table valid_data_version()
\* returns False; a set_metadata(key, value) on a cluster that answers
\* never fails, and when it has returned the table exists, holds the value
\* under the key, and still holds what it held before under the other
\* keys; and whenever the store holds '1.0' under 'version', which it does
\* from the return of set_metadata('version', '1.0') on,
\* valid_data_version() returns True.
C13_SelfHeal ==
  /\ (call.op = "valid_data_version" /\ call.pc = "returned") =>
       /\ ~HasMetadataTable(db) => call.result = FALSE
       /\ HoldsMetadata(db, VERSION_INFO_KEY, VersionOne.val) =>
            call.result = TRUE
  /\ (call.op = "valid_data_version" /\ call.pc = "raised") =>
       /\ HasMetadataTable(db)
       /\ ~HoldsMetadata(db, VERSION_INFO_KEY, VersionOne.val)
  /\ call.op = "set_metadata" => call.pc # "raised"
  /\ AfterSetMetadata =>
       /\ HoldsMetadata(db, hist.keys[1], hist.vals[hist.keys[1]].val)
       /\ HasMetadataTable(hist.pre) =>
            \A cell \in DOMAIN hist.pre[DATASTORE_METADATA_TABLE] :
              cell # MetadataCell(Str(hist.keys[1])) =>
                /\ cell \in DOMAIN db[DATASTORE_METADATA_TABLE]
                /\ db[DATASTORE_METADATA_TABLE][cell] =
                     hist.pre[DATASTORE_METADATA_TABLE][cell]

\* valid_data_version() has returned True after a set_metadata('version',
\* '1.0') that found no metadata table and created it.
C13_Witness ==
  /\ AfterSetMetadata
  /\ hist.keys = <<VERSION_INFO_KEY>>
  /\ ~HasMetadataTable(hist.pre)
  /\ hist.creates = 1
  /\ call.op = "valid_data_version"
  /\ call.pc = "returned"
  /\ call.result = TRUE

\* C14: one set_metadata call makes at most two attempts to write and at
\* most one create_table; it is at its second write only after its
\* create_table has returned, the table then existing; and a call whose
\* first write succeeded has made no create_table.
C14_HandledOnce ==
  call.op = "set_metadata" =>
    /\ call.writes <= 2
    /\ call.creates <= 1
    /\ (call.pc = "again" \/ call.writes = 2) =>
         /\ call.creates = 1
         /\ HasMetadataTable(db)
    /\ call.pc = "create" => call.writes = 1
    /\ (call.pc = "returned" /\ call.writes = 1) => call.creates = 0

\* A set_metadata has returned after a first write that found no table, one
\* create_table and a second write.
C14_Witness ==
  /\ call.op = "set_metadata"
  /\ call.pc = "returned"
  /\ call.writes = 2
  /\ call.creates = 1
  /\ ~HasMetadataTable(call.pre)

\* C15 as stated: a set_metadata whose second write, made after it created
\* the metadata table, failed ends in AppScaleDBConnectionError.
C15_AsStated ==
  (call.op = "set_metadata" /\ call.pc = "raised" /\ call.writes = 2) =>
    call.err = "AppScaleDBConnectionError"

(***************************************************************************)
(* range_query                                                             *)
(***************************************************************************)
\* A range_query has returned.
Scanned ==
  /\ call.op = "range_query"
  /\ call.pc = "returned"

\* The rows the cluster sent for the statement of the call.
Window == SelectRange(db, call.stmt)

\* The keys of the rows of a table, and those the bounds of the call admit.
RowKeysOf(d, table) == {cell[1] : cell \in DOMAIN d[table]}
InBounds(key) ==
  LET r == call.stmt.range
  IN /\ IF r.gt_inclusive THEN Token(key) >= Token(r.start_key)
        ELSE Token(key) > Token(r.start_key)
     /\ IF r.lt_inclusive THEN Token(key) <= Token(r.end_key)
        ELSE Token(key) < Token(r.end_key)

\* The elements of seq without repetition, in the order of their first
\* occurrence.
DistinctInOrder(seq) ==
  LET firsts == {i \in 1..Len(seq) : \A j \in 1..(i - 1) : seq[j] # seq[i]}
      nth(n) == CHOOSE i \in firsts : Cardinality({j \in firsts : j <= i}) = n
  IN [n \in 1..Cardinality(firsts) |-> seq[nth(n)]]

NoDuplicates(seq) ==
  \A i, j \in 1..Len(seq) : i # j => seq[i] # seq[j]

\* The table holds N rows, all inside the bounds of the call, and the call
\* has limit N and offset 0.
LimitIsRowCount ==
  /\ call.limit # <<>>
  /\ call.offset = 0
  /\ RowKeysOf(db, call.table) # {}
  /\ \A k \in RowKeysOf(db, call.table) : InBounds(k)
  /\ call.limit[1] = Cardinality(RowKeysOf(db, call.table))

\* C16 as stated: a range_query with keys_only=True returns each key of its
\* window once, in the order of the cluster, however many of the requested
\* columns a row holds; with limit N on a table of N rows inside the bounds
\* it returns the N keys.
C16_AsStated ==
  (Scanned /\ call.keys_only) =>
    /\ NoDuplicates(call.result)
    /\ LimitIsRowCount =>
         \A k \in RowKeysOf(db, call.table) :
           (\E c \in call.stmt.cols : <<k, c>> \in DOMAIN db[call.table]) =>
             k \in Range(call.result)

\* C17 as stated: a range_query with a limit L that is not None and offset
\* 0 returns at most L results, entities or keys, whatever the table
\* holds.
C17_AsStated ==
  (Scanned /\ call.limit # <<>> /\ call.offset = 0) =>
    Len(call.result) <= call.limit[1]

\* Every row of the table of the call holds every requested column.
FullRows ==
  \A k \in RowKeysOf(db, call.table), c \in call.stmt.cols :
    <<k, c>> \in DOMAIN db[call.table]

\* The entity of row k: the requested columns with their values.
EntityOf(d, table, k, cols) ==
  (k :> [c \in {x \in cols : <<k, x>> \in DOMAIN d[table]} |->
           FromBlob(d[table][<<k, c>>])])

\* C18: on a table of N rows that each hold every requested column, a
\* range_query with limit N, offset 0 and bounds that admit all N keys
\* returns N entities, one for each key, each with all the requested
\* columns of its row.
C18_AllEntities ==
  (Scanned /\ ~call.keys_only /\ LimitIsRowCount /\ FullRows) =>
    /\ Len(call.result) = Cardinality(RowKeysOf(db, call.table))
    /\ \A k \in RowKeysOf(db, call.table) :
         \E i \in 1..Len(call.result) :
           call.result[i] = EntityOf(db, call.table, k, call.stmt.cols)

\* A range_query for both columns with limit 3 has returned three entities
\* from a table of three full rows.
C18_Witness ==
  /\ Scanned
  /\ ~call.keys_only
  /\ LimitIsRowCount
  /\ FullRows
  /\ call.stmt.cols = {"c1", "c2"}
  /\ RowKeysOf(db, call.table) = Keys
  /\ Len(call.result) = Cardinality(Keys)

\* What the call returns when made with offset 0: the statement, and so the
\* rows of the cluster, do not depend on the offset.
WithoutOffset == RangeResult(Window, call.keys_only, 0)

\* C19: a range_query with offset o returns what the same call returns
\* with offset 0 without its first o elements, in the same order: of G
\* elements G - o are left, or none when o is larger than G.
C19_Offset ==
  Scanned =>
    /\ call.result = SubSeq(WithoutOffset, call.offset + 1, Len(WithoutOffset))
    /\ Len(call.result) =
         IF Len(WithoutOffset) > call.offset
           THEN Len(WithoutOffset) - call.offset ELSE 0

\* A range_query with offset 2 has returned the last of three entities.
C19_Witness ==
  /\ Scanned
  /\ ~call.keys_only
  /\ call.offset = 2
  /\ Len(WithoutOffset) = 3
  /\ call.result = <<WithoutOffset[3]>>

\* The keys of the rows of the window, as the driver hands them over.
WindowKeys == [i \in 1..Len(Window) |-> FromBlob(Window[i][1]).val]

\* The (column, value) pairs the window holds for key k, as a map.
StreamedFor(k) ==
  LET at == {i \in 1..Len(Window) : WindowKeys[i] = k}
  IN [c \in {Window[i][2] : i \in at} |->
        FromBlob(Window[CHOOSE i \in at : Window[i][2] = c][3])]

\* One single-key map for each distinct key of the window, in the order in
\* which the keys are first seen.
Grouped ==
  LET keys == DistinctInOrder(WindowKeys)
  IN [n \in 1..Len(keys) |-> (keys[n] :> StreamedFor(keys[n]))]

\* C20: a range_query with keys_only=False returns, from its offset on, one
\* single-key map for each distinct key of the rows the cluster streamed,
\* in first-seen order of the keys, the map of a key holding exactly the
\* (column, value) pairs streamed for it: no row of the stream is lost, at
\* its start, inside or at its end.
C20_Grouping ==
  (Scanned /\ ~call.keys_only) =>
    call.result = SubSeq(Grouped, call.offset + 1, Len(Grouped))

\* A range_query has grouped a stream of a row of two columns, a row of one
\* column and a row of two columns into three entities.
C20_Witness ==
  /\ Scanned
  /\ ~call.keys_only
  /\ call.offset = 0
  /\ Len(Window) = 5
  /\ Len(call.result) = 3
  /\ DOMAIN call.result[1][WindowKeys[1]] = {"c1", "c2"}
  /\ Cardinality(DOMAIN call.result[2][WindowKeys[3]]) = 1
  /\ DOMAIN call.result[3][WindowKeys[5]] = {"c1", "c2"}

\* The keys a range_query returned: the keys themselves when keys_only, and
\* the key of each entity otherwise.
ReturnedKeys ==
  IF call.keys_only THEN Range(call.result)
  ELSE UNION {DOMAIN call.result[i] : i \in 1..Len(call.result)}

\* Row k of the table of the call holds one of the requested columns.
HoldsRequested(k) ==
  \E c \in Range(call.cols) : <<k, c>> \in DOMAIN db[call.table]

\* token(start_key) R1 token(k) and token(k) R2 token(end_key) for the
\* arguments of the call.
InTokenWindow(k) ==
  LET start_key == call.bounds[1]
      end_key == call.bounds[2]
      start_inclusive == call.bounds[3]
      end_inclusive == call.bounds[4]
  IN /\ IF start_inclusive THEN Token(start_key) <= Token(k)
        ELSE Token(start_key) < Token(k)
     /\ IF end_inclusive THEN Token(k) <= Token(end_key)
        ELSE Token(k) < Token(end_key)

C22_AsStated ==
  call.op = "valid_data_version" =>
    /\ call.pc # "raised"
    /\ call.pc = "returned" =>
         call.result = HoldsMetadata(db, VERSION_INFO_KEY, VersionOne.val)

\* What the store holds under a metadata key: the value as a str, or None.
StoredMetadata(d, key) ==
  IF HasMetadataTable(d) /\ MetadataCell(Str(key)) \in DOMAIN d[DATASTORE_METADATA_TABLE]
    THEN FromBlob(d[DATASTORE_METADATA_TABLE][MetadataCell(Str(key))])
    ELSE NoneObj

\* C23 as stated: get_metadata(key) on a cluster that answers never raises;
\* it returns None whenever the store holds no value under key, the
\* metadata table not existing yet included, and otherwise the value the
\* last successful set_metadata(key, value) stored.
C23_AsStated ==
  call.op = "get_metadata" =>
    /\ call.pc # "raised"
    /\ call.pc = "returned" => call.result = StoredMetadata(db, call.keys[1])

(***************************************************************************)
(* create_table and delete_table                                           *)
(***************************************************************************)
\* The tables of store d other than table are in store e as they are in d.
OthersKept(d, e, table) ==
  /\ DOMAIN e \ {table} = DOMAIN d \ {table}
  /\ \A t \in DOMAIN d \ {table} : e[t] = d[t]

\* C24: on a cluster that answers, create_table and delete_table never
\* raise.  When create_table(T) has returned T exists, every other table is
\* as before and, if T existed before, the store is the one before the call,
\* every row of T kept.  When delete_table(T) has returned T does not exist,
\* every other table is as before and, if T was absent before, the store
\* is the one before the call.  A call that directly follows the same
\* operation on the same table leaves the store as it found it.
C24_Idempotent ==
  /\ call.op \in {"create_table", "delete_table"} => call.pc # "raised"
  /\ (call.op = "create_table" /\ call.pc = "returned") =>
       /\ call.table \in DOMAIN db
       /\ OthersKept(call.pre, db, call.table)
       /\ call.table \in DOMAIN call.pre => db = call.pre
       /\ call.table \notin DOMAIN call.pre => db[call.table] = <<>>
       /\ call.last = <<"create_table", call.table>> => db = call.pre
  /\ (call.op = "delete_table" /\ call.pc = "returned") =>
       /\ call.table \notin DOMAIN db
       /\ OthersKept(call.pre, db, call.table)
       /\ call.table \notin DOMAIN call.pre => db = call.pre
       /\ call.last = <<"delete_table", call.table>> => db = call.pre

\* A create_table of a table that holds rows has returned and the rows are
\* there, and it was the second create_table of that table in a row.
C24_Witness ==
  /\ call.op = "create_table"
  /\ call.pc = "returned"
  /\ call.last = <<"create_table", call.table>>
  /\ DOMAIN call.pre[call.table] # {}
  /\ db[call.table] = call.pre[call.table]

(***************************************************************************)
(* Failed calls.                                                           *)
(***************************************************************************)
\* The fields of the engine are those the constructor set.
EngineIntact ==
  /\ session = "Session"
  /\ default_consistency_level = QUORUM
  /\ retry_policy = "IdempotentRetryPolicy"

\* C25: when a call has raised, AppScaleDBConnectionError or TypeError
\* included, the session, the default consistency level and the retry
\* policy of the engine are those the constructor set; the caller of the
\* failed call and every other caller can make a further call; and while
\* the cluster answers, no other call on the engine raises, whether it was
\* in flight when the first one failed or was made later.  A step of one
\* caller's call leaves the call of the other caller as it is.
C25_Local ==
  /\ [](call.pc = "raised" =>
          /\ EngineIntact
          /\ ENABLED batch_get_entity(OneTable, OneKey, OneColumn))
  /\ [](Responding =>
          /\ EngineIntact
          /\ call.pc # "raised"
          /\ call.pc \in {"idle", "returned"} =>
               ENABLED batch_get_entity(OneTable, OneKey, OneColumn))
  /\ [][parked' # parked => (parked' = call /\ call' = parked)]_vars

\* A batch_get_entity made after a batch_mutate of another caller ended in
\* AppScaleDBConnectionError has returned.
C25_Witness ==
  /\ parked.op = "batch_mutate"
  /\ parked.pc = "raised"
  /\ parked.err = "AppScaleDBConnectionError"
  /\ call.op = "batch_get_entity"
  /\ call.pc = "returned"
  /\ call.seq > parked.seq

(***************************************************************************)
(* batch_put_entity                                                        *)
(***************************************************************************)
\* A batch_put_entity has returned.
PutReturned ==
  /\ call.op = "batch_put_entity"
  /\ call.pc = "returned"

\* The (key, column) pairs cell_values holds a value for, and those the
\* call declares in row_keys and column_names.
PresentPairs == {p \in Cells : ~Missing(call.vals, p)}
DeclaredPairs == Range(call.keys) \X Range(call.cols)

\* The store holds value in the cell of table.
Holds(d, table, cell, value) ==
  /\ cell \in DOMAIN d[table]
  /\ d[table][cell] = value

\* C26 as stated: when batch_put_entity has returned, the table holds, for
\* every (key, column) pair present in cell_values, the value given there.
C26_AsStated ==
  PutReturned =>
    \A p \in PresentPairs :
      Holds(db, call.table, p, call.vals[p[1]][p[2]].val)

\* C26: when batch_put_entity has returned, the table holds, for every pair
\* of a key of row_keys and a column of column_names, the value
\* cell_values gives for it, whether the cell existed before or not, and
\* every other cell of the table is as it was before the call, the cells
\* that cell_values names beyond row_keys and column_names included.
C26_Declared ==
  PutReturned =>
    /\ \A p \in DeclaredPairs :
         Holds(db, call.table, p, call.vals[p[1]][p[2]].val)
    /\ \A p \in Cells \ DeclaredPairs :
         /\ p \in DOMAIN db[call.table] <=> p \in DOMAIN call.pre[call.table]
         /\ p \in DOMAIN db[call.table] =>
              db[call.table][p] = call.pre[call.table][p]

\* A batch_put_entity for two rows and two columns has returned: it wrote
\* a new value over one that row 'a' held and a first value into row 'b'.
C26_Witness ==
  /\ PutReturned
  /\ DeclaredPairs = {KeyA, KeyB} \X {"c1", "c2"}
  /\ <<KeyA, "c1">> \in DOMAIN call.pre[call.table]
  /\ call.pre[call.table][<<KeyA, "c1">>] # db[call.table][<<KeyA, "c1">>]
  /\ <<KeyB, "c1">> \notin DOMAIN call.pre[call.table]
  /\ Holds(db, call.table, <<KeyB, "c1">>, call.vals[KeyB]["c1"].val)

(***************************************************************************)
(* batch_mutate: prepared statements                                       *)
(***************************************************************************)
\* The tables the mutations of an operation are on: one (table, operation)
\* group for each.
GroupsOf(muts, operation) ==
  {muts[i].table : i \in {j \in 1..Len(muts) : muts[j].operation = operation}}

PreparesDue(muts) ==
  Cardinality(GroupsOf(muts, PUT)) + Cardinality(GroupsOf(muts, DELETE))

\* C27: a batch_mutate call never prepares more statements than its list
\* has (table, PUT) groups plus (table, DELETE) groups, and once its loop
\* is through, at the execute of the batch and after, it has prepared
\* exactly that many: one insert and one delete statement for a table at
\* most, however many mutations are on it.
C27_OnePerGroup ==
  call.op = "batch_mutate" =>
    /\ call.prepares <= PreparesDue(call.muts)
    /\ call.pc # "prepare" => call.prepares = PreparesDue(call.muts)
    /\ call.prepared.insert \subseteq GroupsOf(call.muts, PUT)
    /\ call.prepared.delete \subseteq GroupsOf(call.muts, DELETE)

\* A batch_mutate of two PUTs on one table has returned after one prepare.
C27_Witness ==
  /\ call.op = "batch_mutate"
  /\ call.pc = "returned"
  /\ Len(call.muts) = 2
  /\ \A i \in 1..2 : call.muts[i].operation = PUT /\ call.muts[i].table = "T1"
  /\ call.muts[1] # call.muts[2]
  /\ call.prepares = 1

(***************************************************************************)
(* range_query: the limit sent to the cluster                              *)
(***************************************************************************)
\* The keys of the rows of the scan window of the call, in the order of
\* their tokens: the rows a scan without LIMIT goes through.
WindowRowKeys ==
  LET ks == {k \in Keys : HoldsRequested(k) /\ InTokenWindow(k)}
      nth(n) == CHOOSE k \in ks :
                  Cardinality({x \in ks : Token(x) <= Token(k)}) = n
  IN [n \in 1..Cardinality(ks) |-> nth(n)]

\* The number of rows of the window the limit of the call admits.
RowsDue ==
  IF call.limit = <<>> \/ call.limit[1] >= Len(WindowRowKeys)
    THEN Len(WindowRowKeys)
    ELSE call.limit[1]

\* C30: the statement of a range_query carries LIMIT limit *
\* len(column_names) when limit is not None and no LIMIT when it is None,
\* and a range_query for entities with offset 0 returns, as its first
\* results, each of the first limit rows of its window (all of them when
\* limit is None) with every requested column the row holds: none of these
\* entities lacks a column.
C30_LimitPushdown ==
  /\ (call.op = "range_query" /\ call.pc \in {"execute", "returned"}) =>
       call.stmt.range.limit =
         IF call.limit = <<>> THEN <<>>
         ELSE <<call.limit[1] * Len(call.cols)>>
  /\ (Scanned /\ ~call.keys_only /\ call.offset = 0) =>
       /\ Len(call.result) >= RowsDue
       /\ \A i \in 1..RowsDue :
            call.result[i] =
              EntityOf(db, call.table, WindowRowKeys[i], Range(call.cols))

\* A range_query with limit 2 for two columns, sent with LIMIT 4, has
\* returned the first two of three rows, each with both its columns.
C30_Witness ==
  /\ Scanned
  /\ ~call.keys_only
  /\ call.offset = 0
  /\ call.limit = <<2>>
  /\ call.stmt.range.limit = <<4>>
  /\ Len(WindowRowKeys) = 3
  /\ Len(call.result) = 2
  /\ \A i \in 1..2 : DOMAIN call.result[i][WindowRowKeys[i]] = {"c1", "c2"}

(***************************************************************************)
(* TTL                                                                     *)
(***************************************************************************)
\* The last write that returned is a batch_put_entity, and no write was
\* started since.
AfterPut ==
  /\ hist.op = "batch_put_entity"
  /\ hist.pc = "returned"

\* The cells the put wrote are in store d with the values it gave them.
PutCellsIn(d) ==
  \A k \in Range(hist.keys), c \in Range(hist.cols) :
    Holds(d, hist.table, <<k, c>>, hist.vals[k][c].val)

\* No cell the put wrote is in store d.
PutCellsGone(d) ==
  \A k \in Range(hist.keys), c \in Range(hist.cols) :
    <<k, c>> \notin DOMAIN d[hist.table]

\* A batch_get_entity of the table of the put has returned, at time call.at.
ReadAfterPut ==
  /\ AfterPut
  /\ call.op = "batch_get_entity"
  /\ call.pc = "returned"
  /\ call.table = hist.table

\* The result of the read has, or lacks, every cell of the put it asked
\* for.
ReadHas ==
  \A k \in Range(hist.keys) \cap Range(call.keys),
     c \in Range(hist.cols) \cap Range(call.cols) :
    /\ c \in DOMAIN call.result[k]
    /\ call.result[k][c] = hist.vals[k][c]
ReadLacks ==
  \A k \in Range(hist.keys) \cap Range(call.keys),
     c \in Range(hist.cols) \cap Range(call.cols) :
    c \notin DOMAIN call.result[k]

\* C29: after a batch_put_entity with ttl=t, t a positive number of
\* seconds, that returned at time T, and as long as no other write is made,
\* the cells it wrote are in the store, and in the result of every
\* batch_get_entity that returns, at every time before T + t, and in
\* neither at every time after T + t; after a batch_put_entity with
\* ttl=None they are there at every later time.
C29_Expiry ==
  AfterPut =>
    IF hist.ttl.ty = "NoneType"
      THEN /\ PutCellsIn(db)
           /\ ReadAfterPut => ReadHas
      ELSE /\ clock.now < hist.at + IntOf(hist.ttl) => PutCellsIn(db)
           /\ clock.now > hist.at + IntOf(hist.ttl) => PutCellsGone(db)
           /\ (ReadAfterPut /\ call.at < hist.at + IntOf(hist.ttl)) => ReadHas
           /\ (ReadAfterPut /\ call.at > hist.at + IntOf(hist.ttl)) => ReadLacks

\* A batch_get_entity has returned {'a': {}} more than one second after a
\* batch_put_entity with ttl=1 wrote the cell it asked for.
C29_Witness ==
  /\ ReadAfterPut
  /\ hist.ttl = Obj("int", 1)
  /\ call.at > hist.at + 1
  /\ call.keys = hist.keys
  /\ call.cols = hist.cols
  /\ call.result = (KeyA :> <<>>)

(***************************************************************************)
(* The statements that carry the retry policy.                             *)
(***************************************************************************)
\* The rows the cluster answers a statement with on store d; a statement
\* that is no SELECT has none.
RowsOf(d, stmt) ==
  CASE stmt.kind = "SELECT_IN" -> SelectIn(d, stmt)
    [] stmt.kind = "SELECT_RANGE" -> SelectRange(d, stmt)
    [] stmt.kind = "SELECT_ONE" -> SelectOne(d, stmt)
    [] OTHER -> <<>>

\* Executing the statement a second time right after the first leaves the
\* store, the times of expiry and the rows of the answer as the first
\* execution left them.
Idempotent(d, clk, stmt) ==
  LET once == Apply(d, stmt)
      clk1 == ApplyExpiry(clk, d, stmt)
  IN /\ Apply(once, stmt) = once
     /\ ApplyExpiry(clk1, once, stmt) = clk1
     /\ stmt.kind \in ReadKinds => RowsOf(once, stmt) = RowsOf(d, stmt)

\* The call is a write that executed its statement more than once.
Reexecuted ==
  /\ call.op \in {"batch_put_entity", "batch_delete", "delete_table"}
  /\ call.pc = "returned"
  /\ call.attempts >= 2

SleptSoFar ==
  CASE ctor_pc \in {"cluster", "connect"} -> SLEEP_SECONDS * connect_attempts
    [] ctor_pc = "sleep" -> SLEEP_SECONDS * (connect_attempts - 1)
    [] ctor_pc = "returned" -> SLEEP_SECONDS * (connect_attempts - 1)
    [] BudgetExhausted -> SLEEP_SECONDS * (connect_attempts - 1)
    [] OTHER -> slept

\* C31: the constructor sleeps 3 seconds after each failed connection
\* attempt that another attempt follows and at no other point, never after
\* the final failed attempt, and when every attempt fails it has slept 60
\* seconds in all before the fatal failure.
C31_GracePeriod ==
  /\ [](slept = SleptSoFar)
  /\ [](ctor_pc = "sleep" => remaining_retries >= 0)
  /\ [](BudgetExhausted => slept = 60)
  /\ [][/\ slept' # slept =>
             /\ ctor_pc = "sleep"
             /\ slept' = slept + 3
             /\ ctor_pc' = "cluster"
        /\ (ctor_pc = "connect" /\ ctor_pc' = "sleep") =>
             connect_attempts' <= INITIAL_CONNECT_RETRIES
        /\ (ctor_pc = "connect" /\ BudgetExhausted') => slept' = slept]_vars

\* Every attempt failed: the constructor raised after sleeping 60 seconds.
C31_Witness ==
  /\ BudgetExhausted
  /\ slept = 60
  /\ remaining_retries < 0

(***************************************************************************)
(* One call of a single-table operation on either of two tables that both  *)
(* hold data.                                                              *)
(***************************************************************************)
FrameCellSets == {{}, {<<KeyA, "c1">>, <<KeyB, "c2">>}, Cells \ {<<KeyA, "c1">>}}
FrameStores ==
  {[t \in Tables |-> [cell \in (IF t = "T1" THEN S1 ELSE S2) |-> CellValue(cell)]] :
     S1 \in FrameCellSets, S2 \in FrameCellSets}

InitFrame ==
  /\ StatsIdle
  /\ RpcIdle
  /\ Constructed
  /\ pol = NoPol
  /\ db \in FrameStores
  /\ call = NoCall
  /\ nops = 0
  /\ hist = NoCall
  /\ parked = NoCall
  /\ clock = NoClock

NextFrame ==
  \/ /\ call.pc = "idle"
     /\ \E t \in TableArgs :
          \/ \E ks \in ReadKeyArgs, cs \in ReadColumnArgs :
               batch_get_entity(t, ks, cs)
          \/ \E ks \in KeyListArgs, cs \in ColListArgs :
               batch_put_entity(t, ks, cs,
                                Obj("dict", FullValues(ks.val, cs.val, EmptyValues)),
                                NoneObj)
          \/ \E ks \in DeleteKeyArgs : batch_delete(t, ks, Obj("tuple", <<>>))
          \/ \E cs \in RangeColumnArgs, sk \in RangeKeyArgs, ek \in RangeKeyArgs :
               range_query(t, cs, sk, ek, NoneObj, Obj("int", 0), TRUE, TRUE,
                           FALSE)
  \/ \E outcome \in RetriedOutcomes : batch_get_entity_execute(outcome)
  \/ batch_put_entity_prepare("ok")
  \/ \E outcome \in RetriedOutcomes, applied \in BOOLEAN :
       batch_put_entity_execute(outcome, applied)
  \/ \E outcome \in RetriedOutcomes, applied \in BOOLEAN :
       batch_delete_execute(outcome, applied)
  \/ \E outcome \in RetriedOutcomes : range_query_execute(outcome)

SpecFrame == InitFrame /\ [][NextFrame]_vars

\* The stores d and e hold the same tables and differ at most in the cells
\* `cells` of table `table`.
SameOutside(d, e, table, cells) ==
  /\ DOMAIN e = DOMAIN d
  /\ \A t \in DOMAIN d : \A cell \in Cells :
       (t # table \/ cell \notin cells) =>
         /\ cell \in DOMAIN e[t] <=> cell \in DOMAIN d[t]
         /\ cell \in DOMAIN d[t] => e[t][cell] = d[t][cell]

\* The keys of a call as the cluster holds them.
StoredKeys(c) == {ToBlob(ByteArray(Str(c.keys[i]))) : i \in 1..Len(c.keys)}

\* C32: every step of a batch_put_entity(T, keys, columns, ...) call leaves
\* the store as it was outside the cells (k, c) of T with k in keys and c in
\* columns, every step of a batch_delete(T, keys) call leaves it as it was
\* outside the rows of T with a key in keys, and no step of a
\* batch_get_entity or range_query call changes the store; so no table other
\* than the one the call names is changed.
C32_Frame ==
  [][call' # call =>
       /\ call'.op \in {"batch_get_entity", "range_query"} => db' = db
       /\ call'.op = "batch_put_entity" =>
            SameOutside(db, db', call'.table,
                        StoredKeys(call') \X Range(call'.cols))
       /\ call'.op = "batch_delete" =>
            SameOutside(db, db', call'.table, StoredKeys(call') \X Columns)]_vars

\* A batch_delete on T1 has returned: rows of T1 are gone, a row of T1 it
\* did not name is still there, and T2 holds what it held.
C32_Witness ==
  /\ call.op = "batch_delete"
  /\ call.pc = "returned"
  /\ call.table = "T1"
  /\ db # call.pre
  /\ DOMAIN db["T1"] # {}
  /\ DOMAIN db["T2"] # {}
  /\ db["T2"] = call.pre["T2"]

(***************************************************************************)
(* A mutation list submitted and then submitted again, on a cluster whose  *)
(* answer may time out after the batch took effect.                        *)
(***************************************************************************)
MaxResubmitOps == 2

NextResubmit ==
  \/ /\ nops < MaxResubmitOps
     /\ \E ms \in MutationArgs :
          /\ nops > 0 => ms.val = call.muts
          /\ batch_mutate(ms)
  \/ batch_mutate_prepare("ok")
  \/ \E outcome \in RetriedOutcomes, applied \in BOOLEAN :
       batch_mutate_execute(outcome, applied)

SpecResubmit == InitFrame /\ [][NextResubmit]_vars

\* The store d is what an execution of the batch stmt leaves of some store.
AppliedOnce(d, stmt) == \E d0 \in FrameStores : d = Apply(d0, stmt)

\* The batch of the call is built: the loop over the mutations is through.
BatchBuilt ==
  /\ call.op = "batch_mutate"
  /\ call.pc \in {"execute", "returned", "raised"}
  /\ call.stmt.kind = "BATCH"

\* C33: a batch_mutate(M) that starts on the store an execution of the batch
\* of M has left, whether the call that executed it returned or raised
\* AppScaleDBConnectionError, leaves the store as it found it, whatever the
\* answer of the cluster: the store after the second execution is the store
\* after one execution of M.
C33_Resubmit ==
  /\ (call.op = "batch_mutate" /\ call.pc = "prepare") => db = call.pre
  /\ (BatchBuilt /\ AppliedOnce(call.pre, call.stmt)) => db = call.pre

\* The list, a PUT and a DELETE in it, was submitted a second time after its
\* first execution changed the store, and the second call has returned.
C33_Witness ==
  /\ BatchBuilt
  /\ nops = 2
  /\ call.pc = "returned"
  /\ \E i, j \in 1..Len(call.muts) :
       /\ call.muts[i].operation = PUT
       /\ call.muts[j].operation = DELETE
  /\ \E d0 \in FrameStores : d0 # call.pre /\ call.pre = Apply(d0, call.stmt)
  /\ db = call.pre

(***************************************************************************)
(* Two callers of one instance that each submit one mutation list; their   *)
(* calls interleave at every call of the session.                          *)
(***************************************************************************)
ConcurrentLists ==
  {<<Mutation("T1", PUT, KeyA, ("c1" :> Str(<<120>>)))>>,
   <<Mutation("T1", PUT, KeyA, ("c1" :> Str(<<>>)) @@ ("c2" :> Str(<<120>>))),
     Mutation("T2", DELETE, KeyB, <<>>)>>,
   <<Mutation("T1", DELETE, KeyA, <<>>),
     Mutation("T2", PUT, KeyB, ("c1" :> Str(<<120>>)))>>}
ConcurrentArgs == {Obj("list", ms) : ms \in ConcurrentLists}

NextConcurrent ==
  \/ /\ call.pc = "idle"
     /\ \E ms \in ConcurrentArgs : batch_mutate(ms)
  \/ batch_mutate_prepare("ok")
  \/ \E outcome \in RetriedOutcomes, applied \in BOOLEAN :
       batch_mutate_execute(outcome, applied)
  \/ Switch

SpecConcurrent == InitFrame /\ [][NextConcurrent]_vars

RECURSIVE BatchItems(_)
\* The statements the loop of batch_mutate adds for the list muts.
BatchItems(muts) ==
  IF muts = <<>> THEN <<>>
  ELSE LET rest == BatchItems(SubSeq(muts, 2, Len(muts)))
       IN CASE muts[1].operation = PUT -> InsertItems(muts[1]) \o rest
            [] muts[1].operation = DELETE -> <<DeleteItem(muts[1])>> \o rest
            [] OTHER -> rest

\* The call c has handed its batch to session.execute.
Submitted(c) ==
  /\ c.op = "batch_mutate"
  /\ c.pc \in {"execute", "returned", "raised"}
  /\ c.stmt.kind = "BATCH"

\* Both callers' calls have returned.
BothReturned ==
  /\ call.op = "batch_mutate" /\ call.pc = "returned"
  /\ parked.op = "batch_mutate" /\ parked.pc = "returned"

\* The store the first of the two calls found.
StoreBefore == IF call.seq < parked.seq THEN call.pre ELSE parked.pre

\* C34: with two batch_mutate calls of two callers in progress on one
\* instance, the batch a call submits holds exactly the statements of its
\* own mutation list, the call has prepared one statement per (table,
\* operation) of its own list whatever the other has prepared, and once
\* both have returned the store is what the two batches leave of the store
\* before them when executed one after the other, in one order or the other.
C34_NoInterference ==
  /\ \A c \in {call, parked} :
       Submitted(c) =>
         /\ c.stmt.items = BatchItems(c.muts)
         /\ c.prepares = PreparesDue(c.muts)
  /\ BothReturned =>
       db \in {Apply(Apply(StoreBefore, call.stmt), parked.stmt),
               Apply(Apply(StoreBefore, parked.stmt), call.stmt)}

\* Both calls have returned after being in progress together (the second
\* started on the store the first found), their batches write to the same
\* row, and the order of the two makes a difference to the store.
C34_Witness ==
  /\ BothReturned
  /\ call.pre = parked.pre
  /\ call.muts # parked.muts
  /\ db # call.pre
  /\ Apply(Apply(StoreBefore, call.stmt), parked.stmt)
       # Apply(Apply(StoreBefore, parked.stmt), call.stmt)

(***************************************************************************)
(* Two callers that each set one metadata value on a fresh deployment, on  *)
(* a cluster that answers; a value is read once both have returned.        *)
(***************************************************************************)
BothSet ==
  /\ call.op = "set_metadata" /\ call.pc = "returned"
  /\ parked.op = "set_metadata" /\ parked.pc = "returned"

NextMetaRace ==
  \/ /\ call.pc = "idle"
     /\ \E w \in MetaWrites : set_metadata(w[1], w[2])
  \/ /\ BothSet
     /\ \E k \in MetaReads : get_metadata(k)
  \/ set_metadata_execute("ok", TRUE)
  \/ set_metadata_create("ok", TRUE)
  \/ set_metadata_again("ok", TRUE)
  \/ get_metadata_execute("ok")
  \/ Switch

SpecMetaRace == Init /\ [][NextMetaRace]_vars

\* The values the set_metadata calls among the calls cs have written under
\* the key.
ValuesSet(cs, key) ==
  {c.vals[key] : c \in {x \in cs : x.op = "set_metadata" /\ x.keys = <<key>>}}

\* C35: of two set_metadata calls racing on a deployment without metadata
\* table neither raises, whatever the interleaving of their INSERT, CREATE
\* TABLE and second INSERT; once both have returned the table exists and
\* holds under each call's key a value one of the two has set for that key,
\* its own when the keys differ; and a get_metadata that follows returns
\* what the store holds under its key.
C35_Race ==
  /\ \A c \in {call, parked} : c.op = "set_metadata" => c.pc # "raised"
  /\ BothSet =>
       /\ HasMetadataTable(db)
       /\ \A c \in {call, parked} :
            StoredMetadata(db, c.keys[1]) \in ValuesSet({call, parked}, c.keys[1])
  /\ call.op = "get_metadata" =>
       /\ HasMetadataTable(db)
       /\ call.pc # "raised"
       /\ call.pc = "returned" => call.result = StoredMetadata(db, call.keys[1])

\* Both calls found no table and both went through create_table: the second
\* CREATE TABLE met the table the first had made, and both values are there.
C35_Witness ==
  /\ BothSet
  /\ call.creates = 1
  /\ parked.creates = 1
  /\ call.keys # parked.keys
  /\ StoredMetadata(db, call.keys[1]) = call.vals[call.keys[1]]
  /\ StoredMetadata(db, parked.keys[1]) = parked.vals[parked.keys[1]]

(***************************************************************************)
(* A StatsCache that is constructed, fed with snapshots of any timestamps  *)
(* and read, while time passes.                                            *)
(***************************************************************************)
StatsTtlArgs == {NoneObj, Obj("int", 1)}
StampLists == UNION {[1..n -> 1..MaxStamp] : n \in 0..MaxBulk}
LastTimestampArgs == {NoneObj} \cup {Obj("int", t) : t \in BIG_BANG_TIMESTAMP..MaxStamp}
LimitArgs == {NoneObj, Obj("int", 1)}

NextStats ==
  \/ \E snapshots_cache_size \in 0..MaxCacheSize, ttl \in StatsTtlArgs :
       StatsCache_init(snapshots_cache_size, ttl)
  \/ \E utc_timestamp \in 1..MaxStamp : receive(utc_timestamp)
  \/ \E stamps \in StampLists : bulk_receive(stamps)
  \/ \E last_timestamp \in LastTimestampArgs, clean_older \in BOOLEAN :
       get_stats_after(last_timestamp, clean_older)
  \/ \E last_utc_timestamp \in LastTimestampArgs, limit \in LimitArgs,
        fetch_latest_only \in BOOLEAN :
       CachedStatsHandler_get(TRUE, last_utc_timestamp, limit,
                              fetch_latest_only)
  \/ CachedStatsHandler_get(FALSE, NoneObj, NoneObj, FALSE)
  \/ StatsTick

SpecStats == InitCtor /\ [][NextStats]_vars

\* The last n elements of seq, all of it when it has no more than n.
Newest(seq, n) ==
  IF Len(seq) > n THEN SubSeq(seq, Len(seq) - n + 1, Len(seq)) ELSE seq

\* The last call received snapshots.
Received ==
  /\ stats_call.op \in {"receive", "bulk_receive"}
  /\ stats_call.pc = "returned"

\* C36: the cache never holds more than snapshots_cache_size snapshots.
\* After receive or bulk_receive it holds the snapshots the cache held
\* followed by the ones received, less some at its head: when these are
\* more than snapshots_cache_size even without the expired ones, exactly
\* the newest snapshots_cache_size of them in the order received, and
\* without a ttl in every case the newest snapshots_cache_size of them or
\* all.  get_stats_after and the handler only remove snapshots at the head.
C36_Bounded ==
  /\ stats_cache.constructed =>
       Len(stats_cache.snapshots_cache) <= stats_cache.snapshots_cache_size
  /\ Received =>
       LET all == stats_call.pre \o stats_call.added
           live == clean_expired(all, stats_cache.ttl, stats_clock.now)
           size == stats_cache.snapshots_cache_size
       IN /\ \E n \in 0..Len(all) :
               stats_cache.snapshots_cache = Newest(all, n)
          /\ Len(live) > size => stats_cache.snapshots_cache = Newest(all, size)
          /\ Not(stats_cache.ttl) => stats_cache.snapshots_cache = Newest(all, size)
  /\ stats_call.op \in {"get_stats_after", "CachedStatsHandler.get"} =>
       \E n \in 0..Len(stats_call.pre) :
         stats_cache.snapshots_cache = Newest(stats_call.pre, n)

\* A bulk_receive on a cache that held a snapshot brought more snapshots
\* than the cache takes: the one it held and the first received are gone.
C36_Witness ==
  /\ Received
  /\ stats_call.op = "bulk_receive"
  /\ Len(stats_call.pre) = 1
  /\ Len(stats_call.added) = stats_cache.snapshots_cache_size
  /\ stats_cache.snapshots_cache = stats_call.added
  /\ stats_cache.snapshots_cache_size > 1

\* The last call is a get_stats_after that has returned.
StatsRead ==
  /\ stats_call.op = "get_stats_after"
  /\ stats_call.pc = "returned"

\* The snapshots of seq newer than last_timestamp, in the order of seq.
NewerThan(seq, last_timestamp) ==
  LET newer(s) == GreaterThan(s.utc_timestamp, last_timestamp)
  IN SelectSeq(seq, newer)

\* C37 as stated: get_stats_after(last_timestamp) returns exactly the cached
\* snapshots whose utc_timestamp is greater than last_timestamp, in cache
\* order, the empty list when there is none, whatever snapshots were
\* received before.
C37_AsStated ==
  StatsRead =>
    stats_call.result =
      NewerThan(clean_expired(stats_call.pre, stats_cache.ttl, stats_clock.now),
                stats_call.last_timestamp)

\* The last call read the cache with clean_older=True: get_stats_after, or
\* the handler, which leaves clean_older at its default.
Acknowledged ==
  /\ stats_call.op \in {"get_stats_after", "CachedStatsHandler.get"}
  /\ stats_call.pc = "returned"
  /\ stats_call.status # HTTP_DENIED
  /\ stats_call.clean_older

\* C38 as stated: after get_stats_after(last_timestamp) with clean_older=True
\* has returned, the cache holds no snapshot whose utc_timestamp is less
\* than or equal to last_timestamp.
C38_AsStated ==
  Acknowledged =>
    \A i \in 1..Len(stats_cache.snapshots_cache) :
      GreaterThan(stats_cache.snapshots_cache[i].utc_timestamp,
                  stats_call.last_timestamp)

(***************************************************************************)
(* One RPC or RealRPC object, its caller making any calls of MakeCall,     *)
(* Wait and CheckSuccess in any order, and the worker thread.              *)
(***************************************************************************)
NextRpc ==
  \/ \E cls \in {"RPC", "RealRPC"}, callback \in Callbacks : RPC_init(cls, callback)
  \/ \E callback \in Callbacks : MakeCall(callback)
  \/ \E outcome \in StubOutcomes : RealRPC_make_sync_call(outcome)
  \/ \E outcome \in StubOutcomes, callback_outcome \in CallbackOutcomes :
       Wait(outcome, callback_outcome)
  \/ \E callback_outcome \in CallbackOutcomes : RealRPC_WaitImpl(callback_outcome)
  \/ CheckSuccess

SpecRpc == InitCtor /\ [][NextRpc]_vars

\* C39: _MakeCallImpl runs at most once on an RPC object, and every MakeCall
\* issued while the state is not IDLE raises AssertionError and starts
\* nothing: no run of _MakeCallImpl, no worker thread, no call of the stub,
\* and the state stays what it is.
C39_StartedOnce ==
  /\ [](rpc.started <= 1)
  /\ [][(rpc_call'.op = "MakeCall" /\ rpc_call'.n = rpc_call.n + 1
           /\ rpc.state # IDLE) =>
          /\ rpc_call'.pc = "raised"
          /\ rpc_call'.err = "AssertionError"
          /\ rpc'.started = rpc.started
          /\ rpc'.thread = rpc.thread
          /\ rpc'.stub_calls = rpc.stub_calls
          /\ rpc'.state = rpc.state]_vars

\* A second MakeCall on a RealRPC whose call was waited for has raised
\* AssertionError.
C39_Witness ==
  /\ rpc.cls = "RealRPC"
  /\ rpc.state = FINISHING
  /\ rpc.started = 1
  /\ rpc_call.op = "MakeCall"
  /\ rpc_call.err = "AssertionError"
  /\ rpc.callback = None

\* CheckSuccess was called on a RealRPC after a Wait that got through
\* _WaitImpl, and is through.
CheckedAfterWait ==
  /\ rpc.cls = "RealRPC"
  /\ rpc.waits > 0
  /\ rpc_call.op = "CheckSuccess"
  /\ rpc_call.pc \in {"returned", "raised"}

\* C40 as stated: Wait on a RealRPC is through only after the worker thread
\* has finished, and CheckSuccess called after it raises the exception the
\* stub's MakeSyncCall raised on the worker thread, nothing when it raised
\* nothing.
C40_AsStated ==
  /\ (rpc.cls = "RealRPC" /\ rpc.waits > 0) => rpc.thread = "finished"
  /\ CheckedAfterWait => rpc_call.err = rpc.stub_raised

\* C40 amended: Wait on a RealRPC is through only after the worker thread
\* has finished.  While no callback has raised, CheckSuccess called after
\* Wait raises the exception of the stub's MakeSyncCall when that is an
\* Exception, and nothing when the call raised nothing or raised an
\* exception that is not an Exception, which ends the worker thread
\* unrecorded.  When the callback raised in the last Wait, that Wait raised
\* the callback's exception and CheckSuccess raises it, whatever the stub
\* raised.
C40_Kept ==
  /\ (rpc.cls = "RealRPC" /\ rpc.waits > 0) => rpc.thread = "finished"
  /\ (CheckedAfterWait /\ ~rpc.callback_failed) =>
       rpc_call.err = IF rpc.stub_raised = "StubError" THEN "StubError" ELSE None
  /\ (CheckedAfterWait /\ rpc.callback_raised # None) =>
       rpc_call.err = rpc.callback_raised
  /\ (rpc.cls = "RealRPC" /\ rpc_call.op = "Wait" /\ rpc_call.pc = "raised"
        /\ rpc.thread # "unset") =>
       rpc_call.err = rpc.callback_raised

\* The stub raised an Exception on the worker thread, Wait returned and
\* CheckSuccess has raised it.
C40_Witness ==
  /\ CheckedAfterWait
  /\ ~rpc.callback_failed
  /\ rpc.stub_raised = "StubError"
  /\ rpc_call.err = "StubError"

====
